---------------------------- MODULE Spec2Model ----------------------------
(***************************************************************************)
(* A model of the helioschat/sync synchronization engine: the Redis-backed *)
(* SyncService (internal/services, concatenated in                         *)
(* src/internal/database/redis.go) and the changes-since handler           *)
(* (src/internal/handlers/sync.go).                                        *)
(*                                                                         *)
(* The Redis keyspace is modelled as one partial function per key          *)
(* namespace; a key is present iff it is in the function's DOMAIN.         *)
(* Wall-clock time is counted in ticks; TicksPerMs ticks make one          *)
(* millisecond, so that time.Now() keeps a precision finer than the        *)
(* millisecond precision of UnixMilli().                                   *)
(*                                                                         *)
(* Record constructors list their fields in the order in which TLC keeps   *)
(* a record's fields (the order in which the names first occur in this     *)
(* module), so that a record value is in normal form as soon as it is      *)
(* built and may be read by several TLC workers at once.                   *)
(***************************************************************************)
EXTENDS Integers, Sequences, FiniteSets, TLC

(***************************************************************************)
(* Bounds of the model.                                                    *)
(***************************************************************************)
MaxTime == 4
MaxVersion == 2

\* Clock ticks per millisecond: time.Now() is finer than UnixMilli().
TicksPerMs == 2

(***************************************************************************)
(* Small input sets.                                                       *)
(***************************************************************************)
Users == {"u1", "u2"}
ThreadIds == {"t1", "t2"}
Machines == {"m1", "m2"}
MsgIds == {"x1", "x2"}
Payloads == {"a", "b"}
Procs == {"p1", "p2"}
SettingsKinds == {"provider_instances", "disabled_models", "advanced_settings"}
Versions == 1..MaxVersion

VARIABLES
    threads,     \* threads:<user>:<thread>        -> Thread record
    tsIndex,     \* timestamps:threads:<user>      -> [member -> score]
    messages,    \* messages:<thread>:<message>    -> Message record
    settings,    \* <kind>:<user>                  -> settings record
    changes,     \* message_changes:<message>:<ms> -> change-log entry
    machineIds,  \* machine_id:<kind>:<id>:<ms>    -> machine id
    now,         \* the server clock, in ticks
    resp,        \* outcome of the last completed call
    lastWritten, \* history: version written by the last successful upsert
    calls        \* the UpsertThread calls in progress, one per process

vars == <<threads, tsIndex, messages, settings, changes, machineIds, now,
          resp, lastWritten, calls>>

store == <<threads, tsIndex, messages, settings, changes, machineIds>>

(***************************************************************************)
(* time.Time helpers.                                                      *)
(***************************************************************************)
UnixMilli(t) == t \div TicksPerMs

FromUnixMilli(ms) == ms * TicksPerMs

After(a, b) == a > b

(***************************************************************************)
(* Record store primitives on a partial function.                          *)
(***************************************************************************)
Set(db, key, value) == [k \in DOMAIN db \cup {key} |->
                           IF k = key THEN value ELSE db[k]]

Del(db, key) == [k \in DOMAIN db \ {key} |-> db[k]]

\* Mutant: deleting a missing key is reported as an error.
DelStatus_missing(db, key) == IF key \in DOMAIN db THEN "ok" ELSE "error"

\* RedisClient.Del returns no error for a key that does not exist.
DelStatus(db, key) == "ok"

Max(S) == CHOOSE x \in S : \A y \in S : y <= x

NoResp == [op |-> "none"]

Idle == [pc |-> "idle"]

(***************************************************************************)
(* Identifiers as they arrive in a request: strings.  Besides the          *)
(* identifiers above, which are well-formed UUIDs (those of Machines are   *)
(* version 7, the others version 4), a request can carry the nil UUID, a   *)
(* version-4 UUID where a device id is expected, or a string that is not   *)
(* a UUID.                                                                 *)
(***************************************************************************)
NilUUID == "nil"

V4Ids == {"v4"}

Malformed == {"zz"}

WellFormed == Users \cup ThreadIds \cup Machines \cup MsgIds \cup V4Ids \cup {NilUUID}

NoErr == ""

\* uuid.Parse and uuid.MustParse: the error, NoErr for a well-formed UUID.
Parse(str) == IF str \in WellFormed THEN NoErr ELSE "invalid UUID"

\* The version nibble (u[6] & 0xF0) >> 4 of a well-formed UUID.
UUIDVersion(u) ==
    IF u = NilUUID THEN 0 ELSE IF u \in Machines THEN 7 ELSE 4

\* Mutant: only the nil UUID is refused.
ValidateUUIDv7_nilonly(u) ==
    IF u = NilUUID THEN "UUID cannot be nil" ELSE NoErr

ValidateUUIDv7(u) ==
    IF u = NilUUID
    THEN "UUID cannot be nil"
    ELSE IF UUIDVersion(u) # 7 THEN "UUID must be version 7" ELSE NoErr

(***************************************************************************)
(* Origin attribution.                                                     *)
(***************************************************************************)
MachineKey(resourceType, resourceID, timestamp) ==
    <<resourceType, resourceID, UnixMilli(timestamp)>>

storeMachineIDForChange(db, resourceType, resourceID, machineID, timestamp) ==
    Set(db, MachineKey(resourceType, resourceID, timestamp), machineID)

\* Mutant: without an entry for the millisecond, any entry of the resource
\* is taken.
getMachineIDForChange_nearest(db, resourceType, resourceID, timestamp) ==
    IF MachineKey(resourceType, resourceID, timestamp) \in DOMAIN db
    THEN db[MachineKey(resourceType, resourceID, timestamp)]
    ELSE IF \E k \in DOMAIN db : k[1] = resourceType /\ k[2] = resourceID
    THEN db[CHOOSE k \in DOMAIN db : k[1] = resourceType /\ k[2] = resourceID]
    ELSE ""

getMachineIDForChange(db, resourceType, resourceID, timestamp) ==
    IF MachineKey(resourceType, resourceID, timestamp) \in DOMAIN db
    THEN db[MachineKey(resourceType, resourceID, timestamp)]
    ELSE ""

(***************************************************************************)
(* Threads.                                                                *)
(***************************************************************************)
Thread(userID, threadID, version, title) ==
    [version |-> version, title |-> title, id |-> threadID, user_id |-> userID]

ThreadKey(userID, threadID) == <<userID, threadID>>

getThread(db, userID, threadID) ==
    IF ThreadKey(userID, threadID) \in DOMAIN db
    THEN [found |-> TRUE, thread |-> db[ThreadKey(userID, threadID)]]
    ELSE [found |-> FALSE]

\* Mutant: SETNX instead of SET, an existing record is never overwritten.
saveThreadSet_setnx(db, thread) ==
    IF ThreadKey(thread.user_id, thread.id) \in DOMAIN db
    THEN db
    ELSE Set(db, ThreadKey(thread.user_id, thread.id), thread)

saveThreadSet(db, thread) == Set(db, ThreadKey(thread.user_id, thread.id), thread)

saveThreadZAdd(idx, thread) ==
    [idx EXCEPT ![thread.user_id] = Set(@, thread.id, thread.version)]

\* Mutant: an equal version is accepted.
VersionConflict_lt(thread, existing) == thread.version < existing.version

\* Mutant: the version check is skipped.
VersionConflict_off(thread, existing) == FALSE

VersionConflict(thread, existing) == thread.version <= existing.version

GetThreads(db, userID, filtered, since) ==
    {db[k] : k \in {k \in DOMAIN db :
        /\ k[1] = userID
        /\ filtered => After(FromUnixMilli(db[k].version), since)}}

UpsertThread(thread, machineID) ==
    LET existing == getThread(threads, thread.user_id, thread.id)
        isCreating == ~existing.found
    IN  IF ~isCreating /\ VersionConflict(thread, existing.thread)
        THEN /\ resp' = [op |-> "UpsertThread", status |-> "conflict",
                         created |-> FALSE]
             /\ UNCHANGED <<store, now, lastWritten, calls>>
        ELSE /\ threads' = saveThreadSet(threads, thread)
             /\ tsIndex' = saveThreadZAdd(tsIndex, thread)
             /\ machineIds' = storeMachineIDForChange(machineIds, "thread",
                                                      thread.id, machineID, now)
             /\ resp' = [op |-> "UpsertThread", status |-> "ok",
                         created |-> isCreating]
             /\ lastWritten' = Set(lastWritten,
                                   ThreadKey(thread.user_id, thread.id),
                                   thread.version)
             /\ UNCHANGED <<messages, settings, changes, now, calls>>

(***************************************************************************)
(* UpsertThread one store operation at a time, for calls that overlap.     *)
(***************************************************************************)
\* getThread (GET), time.Now() and the version check.
UpsertThreadGet(p, thread, machineID) ==
    /\ calls[p].pc = "idle"
    /\ LET existing == getThread(threads, thread.user_id, thread.id)
           isCreating == ~existing.found
       IN  calls' = [calls EXCEPT ![p] =
               IF ~isCreating /\ VersionConflict(thread, existing.thread)
               THEN [pc |-> "done", thread |-> thread, status |-> "conflict"]
               ELSE [now |-> now, pc |-> "set", machineID |-> machineID,
                     thread |-> thread, created |-> isCreating]]
    /\ UNCHANGED <<store, now, resp, lastWritten>>

\* saveThread: SET of the record.
UpsertThreadSet(p) ==
    /\ calls[p].pc = "set"
    /\ threads' = saveThreadSet(threads, calls[p].thread)
    /\ calls' = [calls EXCEPT ![p].pc = "zadd"]
    /\ UNCHANGED <<tsIndex, messages, settings, changes, machineIds, now, resp,
                   lastWritten>>

\* saveThread: ZADD to the timestamp index.
UpsertThreadZAdd(p) ==
    /\ calls[p].pc = "zadd"
    /\ tsIndex' = saveThreadZAdd(tsIndex, calls[p].thread)
    /\ calls' = [calls EXCEPT ![p].pc = "attr"]
    /\ UNCHANGED <<threads, messages, settings, changes, machineIds, now, resp,
                   lastWritten>>

\* storeMachineIDForChange, then the call returns.
UpsertThreadReturn(p) ==
    /\ calls[p].pc = "attr"
    /\ machineIds' = storeMachineIDForChange(machineIds, "thread",
                                             calls[p].thread.id,
                                             calls[p].machineID, calls[p].now)
    /\ calls' = [calls EXCEPT ![p] =
           [pc |-> "done", thread |-> calls[p].thread, status |-> "ok"]]
    /\ UNCHANGED <<threads, tsIndex, messages, settings, changes, now, resp,
                   lastWritten>>

\* Mutant: the record is left in place.
DeleteThreadDel_keep(db, userID, threadID) == db

\* Mutant: the key is built with its two parts swapped.
DeleteThreadDel_swapped(db, userID, threadID) ==
    Del(db, ThreadKey(threadID, userID))

DeleteThreadDel(db, userID, threadID) == Del(db, ThreadKey(userID, threadID))

DeleteThreadZRem(idx, userID, threadID) ==
    [idx EXCEPT ![userID] = Del(@, threadID)]

DeleteThread(userID, threadID) ==
    /\ threads' = DeleteThreadDel(threads, userID, threadID)
    /\ tsIndex' = DeleteThreadZRem(tsIndex, userID, threadID)
    /\ resp' = [op |-> "DeleteThread",
                status |-> DelStatus(threads, ThreadKey(userID, threadID))]
    /\ UNCHANGED <<messages, settings, changes, machineIds, now, lastWritten, calls>>

(***************************************************************************)
(* Messages and the change log.                                            *)
(***************************************************************************)
Message(messageID, content) == [id |-> messageID, content |-> content]

MessageKey(threadID, messageID) == <<threadID, messageID>>

saveMessage(db, threadID, message) ==
    Set(db, MessageKey(threadID, message.id), message)

ChangeKey(messageID, timestamp) == <<messageID, UnixMilli(timestamp)>>

storeMessageChange(db, resourceType, messageID, operation, timestamp, threadID) ==
    Set(db, ChangeKey(messageID, timestamp),
        [timestamp |-> UnixMilli(timestamp), operation |-> operation,
         resource |-> resourceType, message_id |-> messageID,
         thread_id |-> threadID])

UsedMsgIds ==
    {k[2] : k \in DOMAIN messages} \cup {k[1] : k \in DOMAIN changes}

CreateMessage(threadID, message) ==
    \E newID \in IF message.id = "" THEN MsgIds \ UsedMsgIds ELSE {message.id} :
        LET created == [message EXCEPT !.id = newID]
        IN  /\ messages' = saveMessage(messages, threadID, created)
            /\ changes' = storeMessageChange(changes, "message", created.id,
                                             "create", now, threadID)
            /\ resp' = [op |-> "CreateMessage", status |-> "ok"]
            /\ UNCHANGED <<threads, tsIndex, settings, machineIds, now,
                           lastWritten, calls>>

\* saveMessage comes first; uuid.MustParse(message.ID) then panics on an id
\* that is not a UUID, after the record is stored and before the attribution
\* and the change-log entry are written.
UpdateMessage(threadID, message, machineID) ==
    IF Parse(message.id) # NoErr
    THEN /\ messages' = saveMessage(messages, threadID, message)
         /\ resp' = [op |-> "UpdateMessage", status |-> "panic"]
         /\ UNCHANGED <<threads, tsIndex, settings, changes, machineIds, now,
                        lastWritten, calls>>
    ELSE /\ messages' = saveMessage(messages, threadID, message)
         /\ machineIds' = storeMachineIDForChange(machineIds, "message",
                                                  message.id, machineID, now)
         /\ changes' = storeMessageChange(changes, "message", message.id,
                                          "update", now, threadID)
         /\ resp' = [op |-> "UpdateMessage", status |-> "ok"]
         /\ UNCHANGED <<threads, tsIndex, settings, now, lastWritten, calls>>

DeleteMessageDel(db, threadID, messageID) ==
    Del(db, MessageKey(threadID, messageID))

DeleteMessage(threadID, messageID) ==
    /\ changes' = storeMessageChange(changes, "message", messageID, "delete",
                                     now, threadID)
    /\ messages' = DeleteMessageDel(messages, threadID, messageID)
    /\ resp' = [op |-> "DeleteMessage",
                status |-> DelStatus(messages, MessageKey(threadID, messageID))]
    /\ UNCHANGED <<threads, tsIndex, settings, machineIds, now, lastWritten, calls>>

(***************************************************************************)
(* Singleton settings: provider instances, disabled models, advanced       *)
(* settings.  The three Update functions of the source have the same body  *)
(* up to the key prefix; UpdateSingleton is that body.                     *)
(***************************************************************************)
Singleton(userID, version, data, updatedAt) ==
    [version |-> version, user_id |-> userID, data |-> data,
     updated_at |-> updatedAt]

SettingsKey(kind, userID) == <<kind, userID>>

GetSingleton(db, kind, userID) ==
    IF SettingsKey(kind, userID) \in DOMAIN db
    THEN [value |-> db[SettingsKey(kind, userID)], found |-> TRUE]
    ELSE [found |-> FALSE]

\* Mutant: the updated_at of the request is kept.
StampSingleton_client(record, timestamp) == record

StampSingleton(record, timestamp) == [record EXCEPT !.updated_at = timestamp]

UpdateSingleton(kind, record, machineID) ==
    LET stamped == StampSingleton(record, now)
    IN  /\ settings' = Set(settings, SettingsKey(kind, stamped.user_id), stamped)
        /\ machineIds' = storeMachineIDForChange(machineIds, kind,
                                                 stamped.user_id, machineID, now)
        /\ resp' = [op |-> "UpdateSettings", status |-> "ok"]
        /\ UNCHANGED <<threads, tsIndex, messages, changes, now, lastWritten, calls>>

UpdateProviderInstances(providers, machineID) ==
    UpdateSingleton("provider_instances", providers, machineID)

UpdateDisabledModels(models, machineID) ==
    UpdateSingleton("disabled_models", models, machineID)

UpdateAdvancedSettings(record, machineID) ==
    UpdateSingleton("advanced_settings", record, machineID)

(***************************************************************************)
(* The changes-since feed.                                                 *)
(***************************************************************************)
\* Unix milliseconds of Go's zero time.Time (year 1), the only instant for
\* which IsZero() holds; scaled down from -62135596800000.
GoZeroMs == -2

IsZero(t) == t = FromUnixMilli(GoZeroMs)

NoData == [absent |-> TRUE]

ChangeOperation(resource, operation, id, machineID, data, timestamp) ==
    [timestamp |-> timestamp, id |-> id, operation |-> operation,
     resource |-> resource, data |-> data, machine_id |-> machineID]

ThreadOperations(userID, timestamp) ==
    {ChangeOperation("thread", "update", t.id,
                     getMachineIDForChange(machineIds, "thread", t.id,
                                           FromUnixMilli(t.version)),
                     t, FromUnixMilli(t.version)) :
        t \in GetThreads(threads, userID, TRUE, timestamp)}

SingletonIsNewer(record, timestamp) == After(record.updated_at, timestamp)

SingletonOperations(kind, userID, timestamp) ==
    LET got == GetSingleton(settings, kind, userID)
    IN  IF got.found /\ SingletonIsNewer(got.value, timestamp)
        THEN {ChangeOperation(kind, "update", got.value.user_id,
                              getMachineIDForChange(machineIds, kind,
                                                    got.value.user_id,
                                                    got.value.updated_at),
                              got.value, got.value.updated_at)}
        ELSE {}

\* Mutant: an entry stamped exactly at the cursor is returned again.
ChangeIsNewer_inclusive(change, timestamp) ==
    FromUnixMilli(change.timestamp) >= timestamp

ChangeIsNewer(change, timestamp) ==
    After(FromUnixMilli(change.timestamp), timestamp)

getMessageChangesSince(timestamp) ==
    {LET c == changes[k]
         messageKey == MessageKey(c.thread_id, c.message_id)
         changeTimestamp == FromUnixMilli(c.timestamp)
     IN  ChangeOperation("message", c.operation, c.message_id,
                         getMachineIDForChange(machineIds, "message",
                                               c.message_id, changeTimestamp),
                         IF c.operation # "delete" /\ messageKey \in DOMAIN messages
                         THEN messages[messageKey] ELSE NoData,
                         changeTimestamp) :
        k \in {k \in DOMAIN changes : ChangeIsNewer(changes[k], timestamp)}}

\* Mutant: the snapshot scans the change log's messages only.
FullMessages_logged ==
    {messages[k] : k \in {k \in DOMAIN messages :
        \E c \in DOMAIN changes : changes[c].operation = "delete"}}

FullMessages == {messages[k] : k \in DOMAIN messages}

SingletonSnapshot(kind, userID) ==
    LET got == GetSingleton(settings, kind, userID)
    IN  IF got.found THEN got.value ELSE NoData

GetChangesSince(userID, timestamp) ==
    IF IsZero(timestamp)
    THEN [threads |-> GetThreads(threads, userID, FALSE, timestamp),
          messages |-> FullMessages,
          full |-> TRUE,
          provider_instances |-> SingletonSnapshot("provider_instances", userID),
          disabled_models |-> SingletonSnapshot("disabled_models", userID),
          advanced_settings |-> SingletonSnapshot("advanced_settings", userID),
          operations |-> {},
          sync_timestamp |-> now]
    ELSE [threads |-> {},
          messages |-> {},
          full |-> FALSE,
          provider_instances |-> NoData,
          disabled_models |-> NoData,
          advanced_settings |-> NoData,
          operations |->
              ThreadOperations(userID, timestamp)
              \cup SingletonOperations("provider_instances", userID, timestamp)
              \cup SingletonOperations("disabled_models", userID, timestamp)
              \cup SingletonOperations("advanced_settings", userID, timestamp)
              \cup getMessageChangesSince(timestamp),
          sync_timestamp |-> now]

\* getMessageChangesSince passes the message id of every entry after the
\* cursor to uuid.MustParse, which panics on an id that is not a UUID.
MustParsePanics(timestamp) ==
    /\ ~IsZero(timestamp)
    /\ \E k \in DOMAIN changes :
          ChangeIsNewer(changes[k], timestamp) /\ Parse(changes[k].message_id) # NoErr

\* SyncHandler.GetChangesSince: the cursor arrives as Unix milliseconds.  A
\* panic of the service ends the request without a body.
GetChangesSinceHandler(userID, timestampInt) ==
    /\ resp' = IF MustParsePanics(FromUnixMilli(timestampInt))
               THEN [op |-> "GetChangesSince", status |-> "panic",
                     user |-> userID, cursor |-> timestampInt]
               ELSE [op |-> "GetChangesSince", status |-> "ok",
                     user |-> userID, cursor |-> timestampInt,
                     body |-> GetChangesSince(userID,
                                              FromUnixMilli(timestampInt))]
    /\ UNCHANGED <<store, now, lastWritten, calls>>

Init ==
    /\ threads = <<>>
    /\ tsIndex = [u \in Users |-> <<>>]
    /\ messages = <<>>
    /\ settings = <<>>
    /\ changes = <<>>
    /\ machineIds = <<>>
    /\ now = TicksPerMs
    /\ resp = NoResp
    /\ lastWritten = <<>>
    /\ calls = [p \in Procs |-> Idle]

Tick ==
    /\ now < MaxTime
    /\ now' = now + 1
    /\ UNCHANGED <<store, resp, lastWritten, calls>>

\* The clock advances, staying within the current millisecond.
TickWithinMs ==
    /\ now < MaxTime
    /\ UnixMilli(now + 1) = UnixMilli(now)
    /\ now' = now + 1
    /\ UNCHANGED <<store, resp, lastWritten, calls>>

(***************************************************************************)
(* Requests: each operation with its inputs drawn from small sets.         *)
(***************************************************************************)
UpsertThreadReq(KS, PS, MS) ==
    \E k \in KS, v \in Versions, d \in PS, m \in MS :
        UpsertThread(Thread(k[1], k[2], v, d), m)

DeleteThreadReq(KS) ==
    \E k \in KS : DeleteThread(k[1], k[2])

CreateMessageReq(TS, XS, PS) ==
    \E t \in TS, x \in XS, d \in PS : CreateMessage(t, Message(x, d))

UpdateMessageReq(TS, XS, PS, MS) ==
    \E t \in TS, x \in XS, d \in PS, m \in MS :
        UpdateMessage(t, Message(x, d), m)

DeleteMessageReq(TS, XS) ==
    \E t \in TS, x \in XS : DeleteMessage(t, x)

UpdateSettingsReq(US, VS, PS, MS) ==
    \E u \in US, v \in VS, d \in PS, m \in MS, c \in {0, MaxTime} :
        \/ UpdateProviderInstances(Singleton(u, v, d, c), m)
        \/ UpdateDisabledModels(Singleton(u, v, d, c), m)
        \/ UpdateAdvancedSettings(Singleton(u, v, d, c), m)

Cursors == GoZeroMs..UnixMilli(MaxTime)

GetChangesSinceReq(US) ==
    \E u \in US, c \in Cursors : GetChangesSinceHandler(u, c)

(***************************************************************************)
(* Thread operations of two owners, one call at a time, the first owner    *)
(* holding two threads and the second a thread with the same id as one of  *)
(* them.                                                                   *)
(***************************************************************************)
ThreadScope == {<<"u1", "t1">>, <<"u1", "t2">>, <<"u2", "t1">>}

NextThreads ==
    \/ UpsertThreadReq(ThreadScope, Payloads, Machines)
    \/ DeleteThreadReq(ThreadScope)

SpecThreads == Init /\ [][NextThreads]_vars

(***************************************************************************)
(* Settings updates of one owner as the clock advances, one call at a time.*)
(***************************************************************************)
NextSettings ==
    \/ Tick
    \/ UpdateSettingsReq({"u1"}, Versions, Payloads, {"m1"})

SpecSettings == Init /\ [][NextSettings]_vars

(***************************************************************************)
(* Two UpsertThread calls for the same (owner, thread id) that overlap,    *)
(* interleaved at single store operations.                                 *)
(***************************************************************************)
NextConcurrent ==
    \/ \E p \in Procs, v \in Versions, d \in Payloads, m \in Machines :
          UpsertThreadGet(p, Thread("u1", "t1", v, d), m)
    \/ \E p \in Procs : UpsertThreadSet(p)
    \/ \E p \in Procs : UpsertThreadZAdd(p)
    \/ \E p \in Procs : UpsertThreadReturn(p)

SpecConcurrent == Init /\ [][NextConcurrent]_vars

(***************************************************************************)
(* Every operation of the service, one call at a time, within one          *)
(* millisecond of server time.                                             *)
(***************************************************************************)
Next ==
    \/ TickWithinMs
    \/ UpsertThreadReq({<<"u1", "t1">>}, {"a"}, {"m1"})
    \/ DeleteThreadReq({<<"u1", "t1">>})
    \/ CreateMessageReq({"t1"}, {"x1"}, {"a"})
    \/ UpdateMessageReq({"t1"}, {"x1"}, {"a"}, {"m1"})
    \/ DeleteMessageReq({"t1"}, {"x1"})
    \/ UpdateSettingsReq({"u1"}, {1}, {"a"}, {"m1"})
    \/ GetChangesSinceReq({"u1"})

Spec == Init /\ [][Next]_vars
(***************************************************************************)
(* Claims.                                                                 *)
(***************************************************************************)
ThreadArgs ==
    {<<k[1], k[2], v, d, m>> :
        k \in ThreadScope, v \in Versions, d \in Payloads, m \in Machines}

UpsertThreadStep(a) == UpsertThread(Thread(a[1], a[2], a[3], a[4]), a[5])

Stored(a) == threads[ThreadKey(a[1], a[2])]

Exists(a) == ThreadKey(a[1], a[2]) \in DOMAIN threads

\* C1: for a thread that already exists, UpsertThread with an incoming
\* version less than or equal to the stored version fails with a version
\* conflict and leaves the stored thread record, the timestamp index and the
\* origin attribution entries unchanged.
C1_ConflictLeavesStateUnchanged ==
    [][\A a \in ThreadArgs :
          (/\ Exists(a)
           /\ a[3] <= Stored(a).version
           /\ UpsertThreadStep(a))
          => /\ resp'.status = "conflict"
             /\ threads' = threads
             /\ tsIndex' = tsIndex
             /\ machineIds' = machineIds]_vars

C1_Witness ==
    /\ resp.op = "UpsertThread"
    /\ resp.status = "conflict"
    /\ threads # <<>>

\* C2: UpsertThread with an incoming version strictly greater than the stored
\* version, or for a thread that does not exist, succeeds, and a subsequent
\* read of that thread returns the incoming version as the stored version.
C2_GreaterVersionIsStored ==
    [][\A a \in ThreadArgs :
          (/\ ~Exists(a) \/ a[3] > Stored(a).version
           /\ UpsertThreadStep(a))
          => /\ resp'.status = "ok"
             /\ getThread(threads', a[1], a[2]).found
             /\ getThread(threads', a[1], a[2]).thread.version = a[3]]_vars

C2_Witness ==
    /\ resp.op = "UpsertThread"
    /\ resp.status = "ok"
    /\ ~resp.created
    /\ \E k \in DOMAIN threads : threads[k].version = MaxVersion

\* C3 as claimed: for a given (owner, thread id), the versions written by
\* successive successful upserts never decrease, including when a delete
\* occurs between two upserts.
C3_NeverDecreasesAcrossDelete ==
    [][\A a \in ThreadArgs :
          (/\ ThreadKey(a[1], a[2]) \in DOMAIN lastWritten
           /\ UpsertThreadStep(a)
           /\ resp'.status = "ok")
          => a[3] >= lastWritten[ThreadKey(a[1], a[2])]]_vars

\* C3 as amended: the versions written by successive successful upserts never
\* decrease as long as the record is not deleted between them; after a
\* DeleteThread the next upsert is a creation and may write any version.
C3_NeverDecreasesWhileStored ==
    [][\A a \in ThreadArgs :
          (/\ Exists(a)
           /\ UpsertThreadStep(a)
           /\ resp'.status = "ok")
          => /\ lastWritten[ThreadKey(a[1], a[2])] = Stored(a).version
             /\ a[3] >= lastWritten[ThreadKey(a[1], a[2])]]_vars

C3_Witness ==
    /\ resp.op = "UpsertThread"
    /\ resp.status = "ok"
    /\ \E k \in DOMAIN threads : /\ threads[k].version = 1
                                 /\ lastWritten[k] = 1
    /\ \E k \in DOMAIN lastWritten : /\ k \notin DOMAIN threads
                                     /\ lastWritten[k] = MaxVersion

ZeroTime == FromUnixMilli(GoZeroMs)

\* The thread is not found by a get, is absent from the owner's listing and
\* absent from the owner's full-sync snapshot.
Gone(userID, threadID) ==
    /\ ~getThread(threads, userID, threadID).found
    /\ \A t \in GetThreads(threads, userID, FALSE, ZeroTime) : t.id # threadID
    /\ \A t \in GetChangesSince(userID, ZeroTime).threads : t.id # threadID

\* C7: DeleteThread is unconditional: after DeleteThread(owner, id) the thread
\* is gone whatever version was stored, and it stays gone over every later
\* step that is not an upsert of that thread.
C7_DeleteThreadUnconditional ==
    [][\A k \in ThreadScope :
          /\ DeleteThread(k[1], k[2]) => Gone(k[1], k[2])'
          /\ (/\ Gone(k[1], k[2])
              /\ ~\E a \in ThreadArgs : /\ a[1] = k[1]
                                        /\ a[2] = k[2]
                                        /\ UpsertThreadStep(a))
             => Gone(k[1], k[2])']_vars

C7_Witness ==
    /\ resp.op = "DeleteThread"
    /\ resp.status = "ok"
    /\ \E k \in DOMAIN lastWritten : /\ lastWritten[k] = MaxVersion
                                     /\ Gone(k[1], k[2])
SettingsArgs ==
    {<<kind, u, v, d, m>> :
        kind \in SettingsKinds, u \in Users, v \in Versions, d \in Payloads,
        m \in Machines}

\* C5 as claimed: the three singleton settings resources follow the upsert
\* contract of threads: an update whose version is less than or equal to the
\* stored version of that owner's record is rejected with a version conflict
\* and leaves the stored record unchanged.
C5_SettingsVersionConflict ==
    [][\A a \in SettingsArgs :
          (/\ SettingsKey(a[1], a[2]) \in DOMAIN settings
           /\ a[3] <= settings[SettingsKey(a[1], a[2])].version
           /\ UpdateSingleton(a[1], Singleton(a[2], a[3], a[4], 0), a[5]))
          => /\ resp'.status = "conflict"
             /\ settings' = settings]_vars

\* C6: deletion is idempotent: DeleteThread and DeleteMessage applied to a
\* resource that is absent return success and leave the stored records as
\* they are, and a delete applied to the state a delete produced changes
\* nothing more.
C6_DeleteIdempotent ==
    [][/\ \A u \in Users, t \in ThreadIds :
            DeleteThread(u, t)
            => /\ resp'.status = "ok"
               /\ ~getThread(threads, u, t).found
                  => threads' = threads /\ tsIndex' = tsIndex
               /\ DeleteThreadDel(threads', u, t) = threads'
               /\ DeleteThreadZRem(tsIndex', u, t) = tsIndex'
       /\ \A t \in ThreadIds, x \in MsgIds :
            DeleteMessage(t, x)
            => /\ resp'.status = "ok"
               /\ MessageKey(t, x) \notin DOMAIN messages
                  => messages' = messages
               /\ DeleteMessageDel(messages', t, x) = messages']_vars

C6_Witness ==
    /\ resp.op = "DeleteThread"
    /\ resp.status = "ok"
    /\ lastWritten = <<>>
    /\ calls = [p \in Procs |-> Idle]
    /\ \E k \in DOMAIN changes : changes[k].operation = "delete"

\* C8 as claimed: the changes-since request selects full sync exactly when
\* the cursor is the zero value: timestamp 0 returns the full snapshot and
\* every non-zero cursor returns an incremental operation list.
C8_FullSyncIffCursorZero ==
    resp.op = "GetChangesSince" => (resp.body.full <=> resp.cursor = 0)

OwnerThreadIds(userID) == {k[2] : k \in {k \in DOMAIN threads : k[1] = userID}}

\* C9: a full-sync response contains no operation entries and contains every
\* thread currently stored for the owner, every message currently stored in
\* those threads, and each of the three singleton settings records that
\* exists for the owner.
C9_FullSyncIsComplete ==
    (resp.op = "GetChangesSince" /\ resp.body.full)
    => /\ resp.body.operations = {}
       /\ \A k \in DOMAIN threads :
            k[1] = resp.user => threads[k] \in resp.body.threads
       /\ \A k \in DOMAIN messages :
            k[1] \in OwnerThreadIds(resp.user)
            => messages[k] \in resp.body.messages
       /\ \A kind \in SettingsKinds :
            SettingsKey(kind, resp.user) \in DOMAIN settings
            => resp.body[kind] = settings[SettingsKey(kind, resp.user)]

C9_Witness ==
    /\ resp.op = "GetChangesSince"
    /\ resp.body.full
    /\ resp.body.threads # {}
    /\ resp.body.messages # {}
    /\ \A kind \in SettingsKinds : resp.body[kind] # NoData

\* C10: every operation returned by an incremental sync (thread, singleton
\* settings and message operations alike) has a timestamp strictly greater
\* than the supplied cursor.
C10_OperationsAfterCursor ==
    (resp.op = "GetChangesSince" /\ ~resp.body.full)
    => \A o \in resp.body.operations :
          o.timestamp > FromUnixMilli(resp.cursor)

C10_Witness ==
    /\ resp.op = "GetChangesSince"
    /\ ~resp.body.full
    /\ resp.cursor = 0
    /\ {o.resource : o \in resp.body.operations}
         = SettingsKinds \cup {"thread", "message"}
AllReturned == \A p \in Procs : calls[p].pc = "done"

SuccessfulVersions ==
    {calls[p].thread.version :
        p \in {p \in Procs : calls[p].pc = "done" /\ calls[p].status = "ok"}}

\* C4 as claimed: when two UpsertThread calls for the same (owner, thread id)
\* run concurrently, interleaved at single store operations, the stored
\* version never goes down: no upsert replaces a stored record that has a
\* higher version, and the final stored version is the maximum of the
\* versions that were reported as successful.
C4_ConcurrentUpsertsKeepMaximum ==
    [][/\ \A k \in DOMAIN threads \cap DOMAIN threads' :
            threads'[k].version >= threads[k].version
       /\ (AllReturned' /\ SuccessfulVersions' # {})
          => threads'[ThreadKey("u1", "t1")].version = Max(SuccessfulVersions')
      ]_vars
\* The incremental cursors (whole milliseconds) that lie before instant t.
EarlierCursors(t) == {c \in Cursors : c # GoZeroMs /\ FromUnixMilli(c) < t}

OperationsFor(body, resource, id) ==
    {o \in body.operations : o.resource = resource /\ o.id = id}

\* C11 as claimed: echo round-trip for threads: after a client upserts a
\* thread with its own device id, an incremental sync from a cursor earlier
\* than that write returns exactly one operation for that thread, and that
\* operation's machine_id is the writing device id.
C11_ThreadEchoRoundTrip ==
    [][\A a \in ThreadArgs :
          (UpsertThreadStep(a) /\ resp'.status = "ok")
          => \A c \in EarlierCursors(now) :
                LET ops == OperationsFor(
                               GetChangesSince(a[1], FromUnixMilli(c))',
                               "thread", a[2])
                IN  /\ Cardinality(ops) = 1
                    /\ \A o \in ops : o.machine_id = a[5]]_vars
\* A settings update by a device is echoed as exactly one operation of that
\* kind, attributed to the device, by an incremental sync from any cursor
\* earlier than the write.
SettingsEchoRoundTrip ==
    \A a \in SettingsArgs :
        UpdateSingleton(a[1], Singleton(a[2], a[3], a[4], 0), a[5])
        => \A c \in EarlierCursors(now) :
              LET ops == OperationsFor(
                             GetChangesSince(a[2], FromUnixMilli(c))',
                             a[1], a[2])
              IN  /\ Cardinality(ops) = 1
                  /\ \A o \in ops : o.machine_id = a[5]

\* No change of the message other than the one logged at instant t is newer
\* than the cursor.
NoOtherChangeSince(messageID, t, cursor) ==
    \A k \in DOMAIN changes :
        (k[1] = messageID /\ k # ChangeKey(messageID, t))
        => ~ChangeIsNewer(changes[k], cursor)

\* The same for a message update.
MessageEchoRoundTrip ==
    \A t \in ThreadIds, x \in MsgIds, d \in Payloads, m \in Machines :
        UpdateMessage(t, Message(x, d), m)
        => \A c \in EarlierCursors(now) :
              NoOtherChangeSince(x, now, FromUnixMilli(c))
              => LET ops == OperationsFor(
                                GetChangesSince("u1", FromUnixMilli(c))',
                                "message", x)
                 IN  /\ Cardinality(ops) = 1
                     /\ \A o \in ops : o.machine_id = m

\* C12 as claimed: echo round-trip for the server-timestamped kinds: after a
\* client updates a singleton settings resource or updates a message with its
\* own device id, and no other write to that resource follows the cursor, an
\* incremental sync from a cursor earlier than the write returns exactly one
\* operation for that resource with machine_id equal to the writing device.
C12_ServerStampedEchoRoundTrip ==
    [][SettingsEchoRoundTrip /\ MessageEchoRoundTrip]_vars
(***************************************************************************)
(* Two owners, each with one thread and one message in it, and the sync    *)
(* feed of the first owner.                                                *)
(***************************************************************************)
NextIsolation ==
    \/ UpsertThreadReq({<<"u1", "t1">>, <<"u2", "t2">>}, {"a"}, {"m1"})
    \/ CreateMessageReq({"t1"}, {"x1"}, {"a"})
    \/ CreateMessageReq({"t2"}, {"x2"}, {"a"})
    \/ GetChangesSinceReq({"u1"})

SpecIsolation == Init /\ [][NextIsolation]_vars

\* The owners for which the thread is stored.
OwnersOf(threadID) == {k[1] : k \in {k \in DOMAIN threads : k[2] = threadID}}

\* The thread is stored for some other owner and not for userID.
ForeignThread(userID, threadID) ==
    /\ OwnersOf(threadID) # {}
    /\ userID \notin OwnersOf(threadID)

\* C13 as claimed: owner isolation of the sync feed: a sync response for an
\* owner (full or incremental) never contains a message, or a message
\* operation, that belongs to a thread owned by another owner.
C13_OwnerIsolation ==
    [][\A u \in Users, c \in Cursors :
          GetChangesSinceHandler(u, c)
          => /\ \A k \in DOMAIN messages :
                   ForeignThread(u, k[1])
                   => messages[k] \notin resp'.body.messages
             /\ \A k \in DOMAIN changes :
                   ForeignThread(u, changes[k].thread_id)
                   => OperationsFor(resp'.body, "message", k[1]) = {}]_vars
\* Smallest whole millisecond not before instant t.
CeilUnixMilli(t) == (t + TicksPerMs - 1) \div TicksPerMs

\* The cursors a client can derive from a response's sync_timestamp: the
\* endpoint takes whole milliseconds, so the instant is rounded down or up.
NextCursors(body) ==
    {UnixMilli(body.sync_timestamp), CeilUnixMilli(body.sync_timestamp)}

\* The last completed call is a sync of userID.
Synced(userID) == resp.op = "GetChangesSince" /\ resp.user = userID

\* After a sync, a write made later than its sync_timestamp is returned by
\* the chained sync that follows, under one of the cursors at least.
Reflected(userID, resource, id) ==
    (Synced(userID) /\ now > resp.body.sync_timestamp)
    => \E c \in NextCursors(resp.body) :
          \/ IsZero(FromUnixMilli(c))
          \/ OperationsFor(GetChangesSince(userID, FromUnixMilli(c))',
                           resource, id) # {}

\* C14 as claimed: no lost updates under cursor chaining: when a client
\* syncs, a settings update or a message create, update or delete follows,
\* and the client syncs again with the previous sync_timestamp as cursor,
\* the write is reflected in the second response.
C14_NoLostUpdates ==
    [][/\ \A a \in SettingsArgs :
            UpdateSingleton(a[1], Singleton(a[2], a[3], a[4], 0), a[5])
            => Reflected(a[2], a[1], a[2])
       /\ \A t \in ThreadIds, x \in MsgIds, d \in Payloads :
            /\ CreateMessage(t, Message(x, d)) => Reflected("u1", "message", x)
            /\ DeleteMessage(t, x) => Reflected("u1", "message", x)
            /\ \A m \in Machines :
                  UpdateMessage(t, Message(x, d), m)
                  => Reflected("u1", "message", x)]_vars

OperationKeys(body) ==
    {<<o.resource, o.id, o.timestamp>> : o \in body.operations}

\* C15 as claimed: no duplicate delivery under cursor chaining: when a client
\* performs two successive incremental syncs, the second using the first
\* response's sync_timestamp as cursor, no operation (same resource kind, id
\* and timestamp) is returned by both.
C15_NoDuplicateDelivery ==
    [][\A u \in Users, c \in Cursors :
          (/\ Synced(u)
           /\ ~resp.body.full
           /\ c \in NextCursors(resp.body)
           /\ GetChangesSinceHandler(u, c)
           /\ ~resp'.body.full)
          => OperationKeys(resp.body) \cap OperationKeys(resp'.body) = {}]_vars
(***************************************************************************)
(* The listing endpoints: query parsing in the handlers and pagination in  *)
(* the service.                                                            *)
(***************************************************************************)
ThreadsMaxLimit == 28

ThreadsDefaultLimit == 10

MessagesMaxLimit == 50

MessagesDefaultLimit == 20

\* The largest value of Go's int, scaled down from 2^63 - 1.
GoMaxInt == 63

\* Go's int addition: the sum wraps around at the width of int.
WrapAdd(a, b) ==
    ((a + b + GoMaxInt + 1) % (2 * (GoMaxInt + 1))) - (GoMaxInt + 1)

\* A query parameter: absent, text that is no decimal numeral, or the
\* decimal numeral of an integer.
QueryMissing == [kind |-> "missing"]

QueryText == [kind |-> "text"]

QueryInt(i) == [kind |-> "int", numeral |-> i]

\* strconv.Atoi: fails on text and on a numeral outside the range of int.
Atoi(q) ==
    IF q.kind = "int" /\ q.numeral >= -GoMaxInt - 1 /\ q.numeral <= GoMaxInt
    THEN [parsed |-> q.numeral, err |-> FALSE]
    ELSE [parsed |-> 0, err |-> TRUE]

ParseOffset(q) ==
    IF q.kind # "missing" /\ ~Atoi(q).err /\ Atoi(q).parsed >= 0
    THEN Atoi(q).parsed
    ELSE 0

\* Mutant: the requested limit is passed on unclamped.
Clamp_off(parsedLimit, maxLimit) == parsedLimit

Clamp(parsedLimit, maxLimit) ==
    IF parsedLimit > maxLimit THEN maxLimit ELSE parsedLimit

ParseLimit(q, defaultLimit, maxLimit) ==
    IF q.kind # "missing" /\ ~Atoi(q).err /\ Atoi(q).parsed > 0
    THEN Clamp(Atoi(q).parsed, maxLimit)
    ELSE defaultLimit

\* The orders in which a key scan can return the members of S.
Orderings(S) ==
    {f \in [1..Cardinality(S) -> S] :
        \A i, j \in 1..Cardinality(S) : f[i] = f[j] => i = j}

\* The pagination shared by GetThreadsPaginated and GetMessagesPaginated.
Paginate(all, offset, limit) ==
    LET total == Len(all)
        end == IF WrapAdd(offset, limit) > total
               THEN total ELSE WrapAdd(offset, limit)
    IN  [offset |-> offset,
         limit |-> limit,
         total |-> total,
         items |-> IF offset < total THEN SubSeq(all, offset + 1, end)
                   ELSE <<>>,
         has_more |-> WrapAdd(offset, limit) < total]

GetThreadsPaginated(all, offset, limit) == Paginate(all, offset, limit)

GetMessagesPaginated(all, offset, limit) == Paginate(all, offset, limit)

GetMessages(db, threadID) == {db[k] : k \in {k \in DOMAIN db : k[1] = threadID}}

\* SyncHandler.GetThreads.
GetThreadsHandler(userID, offsetQ, limitQ, filtered, since) ==
    /\ \E all \in Orderings(GetThreads(threads, userID, filtered, since)) :
          resp' = [op |-> "GetThreads", status |-> "ok",
                   body |-> GetThreadsPaginated(
                                all, ParseOffset(offsetQ),
                                ParseLimit(limitQ, ThreadsDefaultLimit,
                                           ThreadsMaxLimit)),
                   asked |-> limitQ,
                   matching |-> Cardinality(
                                    GetThreads(threads, userID, filtered, since))]
    /\ UNCHANGED <<store, now, lastWritten, calls>>

\* SyncHandler.GetMessages.
GetMessagesHandler(threadIDStr, offsetQ, limitQ) ==
    /\ IF threadIDStr = ""
       THEN resp' = [op |-> "GetMessages", status |-> "bad_request"]
       ELSE \E all \in Orderings(GetMessages(messages, threadIDStr)) :
               resp' = [op |-> "GetMessages", status |-> "ok",
                        body |-> GetMessagesPaginated(
                                     all, ParseOffset(offsetQ),
                                     ParseLimit(limitQ, MessagesDefaultLimit,
                                                MessagesMaxLimit)),
                        asked |-> limitQ,
                        matching |-> Cardinality(
                                         GetMessages(messages, threadIDStr))]
    /\ UNCHANGED <<store, now, lastWritten, calls>>

LimitQueries ==
    {QueryMissing, QueryText}
    \cup {QueryInt(i) : i \in {-1, 0, 1, 2, 28, 29, 50, 51, GoMaxInt + 1}}

OffsetQueries ==
    {QueryMissing, QueryText}
    \cup {QueryInt(i) : i \in {-1, 0, 1, 2, 3, GoMaxInt}}

GetThreadsReq(US) ==
    \E u \in US, o \in OffsetQueries, l \in LimitQueries, f \in BOOLEAN :
        GetThreadsHandler(u, o, l, f, FromUnixMilli(1))

GetMessagesReq(TS) ==
    \E t \in TS, o \in OffsetQueries, l \in LimitQueries :
        GetMessagesHandler(t, o, l)

(***************************************************************************)
(* The listings of one owner's threads and of one thread's messages as     *)
(* threads and messages are created.                                       *)
(***************************************************************************)
NextListing ==
    \/ UpsertThreadReq({<<"u1", "t1">>, <<"u1", "t2">>}, {"a"}, {"m1"})
    \/ CreateMessageReq({"t1"}, MsgIds, {"a"})
    \/ GetThreadsReq({"u1"})
    \/ GetMessagesReq({"t1", ""})

SpecListing == Init /\ [][NextListing]_vars
DefaultLimit(op) ==
    IF op = "GetThreads" THEN ThreadsDefaultLimit ELSE MessagesDefaultLimit

MaxLimit(op) ==
    IF op = "GetThreads" THEN ThreadsMaxLimit ELSE MessagesMaxLimit

\* The last completed call is a listing that reached the service.
Listed == resp.op \in {"GetThreads", "GetMessages"} /\ resp.status = "ok"

\* C16 as claimed: a requested limit above the kind's maximum is clamped to
\* the maximum, a missing, non-numeric or non-positive limit yields the
\* kind's default, and the limit passed to the service is always between 1
\* and the maximum.
C16_LimitClampedOrDefault ==
    Listed
    => /\ (resp.asked.kind = "int" /\ resp.asked.numeral > MaxLimit(resp.op))
          => resp.body.limit = MaxLimit(resp.op)
       /\ (resp.asked.kind # "int" \/ resp.asked.numeral <= 0)
          => resp.body.limit = DefaultLimit(resp.op)
       /\ resp.body.limit >= 1
       /\ resp.body.limit <= MaxLimit(resp.op)

\* C16 as amended: a limit numeral above the maximum that fits Go's int is
\* clamped to the maximum; a missing or non-numeric limit, a numeral outside
\* the range of int and a non-positive limit yield the default; a limit
\* from 1 to the maximum is passed on as it is; the limit passed to the
\* service is always between 1 and the maximum.
C16_LimitClampedWithinInt ==
    Listed
    => /\ (/\ resp.asked.kind = "int"
           /\ resp.asked.numeral > MaxLimit(resp.op)
           /\ resp.asked.numeral <= GoMaxInt)
          => resp.body.limit = MaxLimit(resp.op)
       /\ (\/ resp.asked.kind # "int"
           \/ resp.asked.numeral <= 0
           \/ resp.asked.numeral > GoMaxInt)
          => resp.body.limit = DefaultLimit(resp.op)
       /\ (/\ resp.asked.kind = "int"
           /\ resp.asked.numeral >= 1
           /\ resp.asked.numeral <= MaxLimit(resp.op))
          => resp.body.limit = resp.asked.numeral
       /\ resp.body.limit >= 1
       /\ resp.body.limit <= MaxLimit(resp.op)

C16_Witness ==
    /\ resp.op = "GetMessages"
    /\ resp.status = "ok"
    /\ resp.asked = QueryInt(MessagesMaxLimit + 1)
    /\ resp.body.limit = MessagesMaxLimit
    /\ resp.matching = Cardinality(MsgIds)

Min(a, b) == IF a < b THEN a ELSE b

\* C17 as claimed: for every paginated listing with offset >= 0 and
\* limit >= 1 over total matching items, has_more is true if and only if
\* offset + limit < total, the page holds exactly
\* min(limit, max(0, total - offset)) items, and total is the number of
\* matching items whatever offset and limit are.
C17_PaginationArithmetic ==
    Listed
    => /\ resp.body.has_more
          <=> (resp.body.offset + resp.body.limit < resp.body.total)
       /\ Len(resp.body.items)
          = Min(resp.body.limit, Max({0, resp.body.total - resp.body.offset}))
       /\ resp.body.total = resp.matching

(***************************************************************************)
(* The write handlers.  A handler checks the request in the order of the   *)
(* source and either answers itself or calls the service; resp then holds  *)
(* what the service returned, and the Reply operators give the answer the  *)
(* handler makes of it.                                                    *)
(***************************************************************************)
NoUser == ""

\* Mutant: the user id of the body is not compared with the caller.
SameUser_any(bodyUserID, userID) == TRUE

\* req.UserID != userID, the check the handlers make after binding the body.
SameUser(bodyUserID, userID) == bodyUserID = userID

Reject(op, code, message) ==
    /\ resp' = [op |-> op, status |-> "rejected", message |-> message,
                code |-> code]
    /\ UNCHANGED <<store, now, lastWritten, calls>>

\* types.ThreadUpdateRequest; data is the thread of the body, of which the
\* id and the title are kept.
ThreadUpdateRequest(machineID, userID, dataID, title, version) ==
    [version |-> version, user_id |-> userID,
     data |-> [title |-> title, id |-> dataID], machine_id |-> machineID]

\* types.MessageUpdateRequest.
MessageUpdateRequest(machineID, userID, threadID, content) ==
    [user_id |-> userID, thread_id |-> threadID,
     data |-> [content |-> content], machine_id |-> machineID]

\* The three settings update requests, which have the same fields.
SettingsUpdateRequest(machineID, userID, data, version) ==
    [version |-> version, user_id |-> userID, data |-> data,
     machine_id |-> machineID]

\* ShouldBindJSON fails on a field of type uuid.UUID that is not a UUID.
BindThreadUpdateRequest(req) ==
    IF Parse(req.user_id) # NoErr \/ Parse(req.data.id) # NoErr
    THEN "invalid request" ELSE NoErr

BindMessageUpdateRequest(req) ==
    IF Parse(req.user_id) # NoErr \/ Parse(req.thread_id) # NoErr
    THEN "invalid request" ELSE NoErr

BindSettingsUpdateRequest(req) ==
    IF Parse(req.user_id) # NoErr THEN "invalid request" ELSE NoErr

UpsertThreadHandler(userID, idParam, req) ==
    IF userID = NoUser
    THEN Reject("UpsertThread", "StatusUnauthorized", "User not authenticated")
    ELSE IF Parse(idParam) # NoErr
    THEN Reject("UpsertThread", "StatusBadRequest", "Invalid thread ID format")
    ELSE IF BindThreadUpdateRequest(req) # NoErr
    THEN Reject("UpsertThread", "StatusBadRequest", "Invalid request format")
    ELSE IF ~SameUser(req.user_id, userID)
    THEN Reject("UpsertThread", "StatusForbidden", "User ID does not match")
    ELSE IF Parse(req.machine_id) # NoErr
    THEN Reject("UpsertThread", "StatusBadRequest", "Invalid machine ID format")
    ELSE IF ValidateUUIDv7(req.machine_id) # NoErr
    THEN Reject("UpsertThread", "StatusBadRequest",
                "Machine ID must be a valid UUIDv7")
    ELSE IF req.data.id # NilUUID /\ req.data.id # idParam
    THEN Reject("UpsertThread", "StatusBadRequest", "Thread ID does not match")
    ELSE UpsertThread(Thread(req.user_id, idParam, req.version, req.data.title),
                      req.machine_id)

\* The answer to what SyncService.UpsertThread returned.
UpsertThreadReply(created, err) ==
    IF err # NoErr
    THEN [message |-> "Failed to save thread",
          code |-> "StatusInternalServerError", details |-> err]
    ELSE [message |-> "",
          code |-> IF created THEN "StatusCreated" ELSE "StatusOK",
          details |-> ""]

DeleteThreadHandler(userID, idParam) ==
    IF userID = NoUser
    THEN Reject("DeleteThread", "StatusUnauthorized", "User not authenticated")
    ELSE IF Parse(idParam) # NoErr
    THEN Reject("DeleteThread", "StatusBadRequest", "Invalid thread ID")
    ELSE DeleteThread(userID, idParam)

CreateMessageHandler(threadIDStr, message) ==
    IF threadIDStr = ""
    THEN Reject("CreateMessage", "StatusBadRequest",
                "thread_id parameter is required")
    ELSE CreateMessage(threadIDStr, message)

UpdateMessageHandler(userID, idParam, req) ==
    IF userID = NoUser
    THEN Reject("UpdateMessage", "StatusUnauthorized", "User not authenticated")
    ELSE IF BindMessageUpdateRequest(req) # NoErr
    THEN Reject("UpdateMessage", "StatusBadRequest", "Invalid request format")
    ELSE IF ~SameUser(req.user_id, userID)
    THEN Reject("UpdateMessage", "StatusForbidden", "User ID does not match")
    ELSE IF Parse(req.machine_id) # NoErr
    THEN Reject("UpdateMessage", "StatusBadRequest", "Invalid machine ID format")
    ELSE IF ValidateUUIDv7(req.machine_id) # NoErr
    THEN Reject("UpdateMessage", "StatusBadRequest",
                "Machine ID must be a valid UUIDv7")
    ELSE UpdateMessage(req.thread_id, Message(idParam, req.data.content),
                       req.machine_id)

DeleteMessageHandler(threadIDStr, messageID) ==
    IF threadIDStr = ""
    THEN Reject("DeleteMessage", "StatusBadRequest",
                "thread_id parameter is required")
    ELSE DeleteMessage(threadIDStr, messageID)

\* The body the three settings update handlers share; op names the handler
\* and the service function it calls.
UpdateSingletonHandler(op, kind, userID, req) ==
    IF userID = NoUser
    THEN Reject(op, "StatusUnauthorized", "User not authenticated")
    ELSE IF BindSettingsUpdateRequest(req) # NoErr
    THEN Reject(op, "StatusBadRequest", "Invalid request format")
    ELSE IF ~SameUser(req.user_id, userID)
    THEN Reject(op, "StatusForbidden", "User ID does not match")
    ELSE IF Parse(req.machine_id) # NoErr
    THEN Reject(op, "StatusBadRequest", "Invalid machine ID format")
    ELSE IF ValidateUUIDv7(req.machine_id) # NoErr
    THEN Reject(op, "StatusBadRequest", "Machine ID must be a valid UUIDv7")
    ELSE UpdateSingleton(kind,
                         Singleton(req.user_id, req.version, req.data, 0),
                         req.machine_id)

UpdateProviderInstancesHandler(userID, req) ==
    UpdateSingletonHandler("UpdateProviderInstances", "provider_instances",
                           userID, req)

UpdateDisabledModelsHandler(userID, req) ==
    UpdateSingletonHandler("UpdateDisabledModels", "disabled_models",
                           userID, req)

UpdateAdvancedSettingsHandler(userID, req) ==
    UpdateSingletonHandler("UpdateAdvancedSettings", "advanced_settings",
                           userID, req)

(***************************************************************************)
(* Write requests of one authenticated user, well-formed and not, one call *)
(* at a time.                                                              *)
(***************************************************************************)
Callers == {"u1", NoUser}

DeviceIds == {"m1", NilUUID, "v4", "zz"}

ThreadUpdateRequests ==
    {ThreadUpdateRequest(m, u, d, "a", v) :
        m \in DeviceIds, u \in {"u1", "u2", "zz"}, d \in {NilUUID, "t2"},
        v \in Versions}

MessageUpdateRequests ==
    {MessageUpdateRequest(m, u, t, "a") :
        m \in DeviceIds, u \in {"u1", "u2"}, t \in {"t1", "zz"}}

SettingsUpdateRequests ==
    {SettingsUpdateRequest(m, u, "a", 1) :
        m \in DeviceIds, u \in {"u1", "u2", "zz"}}

ThreadIdParams == {"t1", "zz"}

MessageIdParams == {"x1", "zz"}

UpsertThreadCall(US, IS, RS) ==
    \E u \in US, id \in IS, req \in RS : UpsertThreadHandler(u, id, req)

DeleteThreadCall ==
    \E u \in Callers, id \in ThreadIdParams : DeleteThreadHandler(u, id)

CreateMessageCall ==
    \E t \in ThreadIdParams \cup {""}, x \in MessageIdParams :
        CreateMessageHandler(t, Message(x, "a"))

UpdateMessageCall(US, IS, RS) ==
    \E u \in US, id \in IS, req \in RS : UpdateMessageHandler(u, id, req)

DeleteMessageCall ==
    \E t \in {"t1", ""}, x \in MessageIdParams :
        DeleteMessageHandler(t, x)

UpdateProviderInstancesCall(US, RS) ==
    \E u \in US, req \in RS : UpdateProviderInstancesHandler(u, req)

UpdateDisabledModelsCall(US, RS) ==
    \E u \in US, req \in RS : UpdateDisabledModelsHandler(u, req)

UpdateAdvancedSettingsCall(US, RS) ==
    \E u \in US, req \in RS : UpdateAdvancedSettingsHandler(u, req)

NextHandlers ==
    \/ UpsertThreadCall(Callers, ThreadIdParams, ThreadUpdateRequests)
    \/ DeleteThreadCall
    \/ CreateMessageCall
    \/ UpdateMessageCall(Callers, MessageIdParams, MessageUpdateRequests)
    \/ DeleteMessageCall
    \/ UpdateProviderInstancesCall(Callers, SettingsUpdateRequests)

SpecHandlers == Init /\ [][NextHandlers]_vars

(***************************************************************************)
(* The five handlers that take a device id, one call at a time, the        *)
(* requests differing in the device id and in whether the user id of the   *)
(* body is the caller's.                                                   *)
(***************************************************************************)
DeviceThreadRequests ==
    {ThreadUpdateRequest(m, u, NilUUID, "a", v) :
        m \in DeviceIds, u \in {"u1", "u2"}, v \in Versions}

DeviceMessageRequests ==
    {MessageUpdateRequest(m, u, "t1", "a") : m \in DeviceIds, u \in {"u1", "u2"}}

DeviceSettingsRequests ==
    {SettingsUpdateRequest(m, u, "a", 1) : m \in DeviceIds, u \in {"u1", "u2"}}

NextDeviceIds ==
    \/ UpsertThreadCall(Callers, {"t1"}, DeviceThreadRequests)
    \/ UpdateMessageCall(Callers, {"x1"}, DeviceMessageRequests)
    \/ UpdateProviderInstancesCall(Callers, DeviceSettingsRequests)
    \/ UpdateDisabledModelsCall(Callers, DeviceSettingsRequests)
    \/ UpdateAdvancedSettingsCall(Callers, DeviceSettingsRequests)

SpecDeviceIds == Init /\ [][NextDeviceIds]_vars

\* C18: a thread upsert that fails the version check is reported to the
\* caller as an outcome distinct from the one used for store failures, and
\* the rejected write is neither retried nor applied.
C18_ConflictSurfacedDistinctFromInternal ==
    [][(resp'.op = "UpsertThread" /\ resp'.status = "conflict")
       => /\ UNCHANGED store
          /\ LET conflict == UpsertThreadReply(resp'.created, "version conflict")
                 internal == UpsertThreadReply(FALSE, "failed to save thread")
             IN  <<conflict.code, conflict.message>>
                 # <<internal.code, internal.message>>]_vars

ValidationFailed(r) == r.status = "rejected" /\ r.code = "StatusBadRequest"

\* The call is refused as a validation failure and nothing stored changes.
RefusedBeforeMutation == ValidationFailed(resp') /\ UNCHANGED store

\* C19: every write request of an authenticated caller that carries a
\* malformed thread id, message id or device id is rejected as a validation
\* failure before any stored record, change-log entry or attribution entry
\* is modified.
C19_MalformedIdRejectedBeforeMutation ==
    [][/\ \A id \in ThreadIdParams, req \in ThreadUpdateRequests :
            (/\ UpsertThreadHandler("u1", id, req)
             /\ req.user_id = "u1"
             /\ (id \in Malformed \/ req.machine_id \in Malformed))
            => RefusedBeforeMutation
       /\ \A id \in ThreadIdParams :
            (DeleteThreadHandler("u1", id) /\ id \in Malformed)
            => RefusedBeforeMutation
       /\ \A t \in ThreadIdParams, x \in MessageIdParams :
            (/\ CreateMessageHandler(t, Message(x, "a"))
             /\ (t \in Malformed \/ x \in Malformed))
            => RefusedBeforeMutation
       /\ \A id \in MessageIdParams, req \in MessageUpdateRequests :
            (/\ UpdateMessageHandler("u1", id, req)
             /\ req.user_id = "u1"
             /\ \/ id \in Malformed
                \/ req.thread_id \in Malformed
                \/ req.machine_id \in Malformed)
            => RefusedBeforeMutation
       /\ \A x \in MessageIdParams :
            (DeleteMessageHandler("t1", x) /\ x \in Malformed)
            => RefusedBeforeMutation
       /\ \A req \in SettingsUpdateRequests :
            (/\ UpdateProviderInstancesHandler("u1", req)
             /\ req.user_id = "u1"
             /\ req.machine_id \in Malformed)
            => RefusedBeforeMutation]_vars

\* A well-formed device id that is the nil UUID or not of version 7.
NilOrNotV7(machineID) ==
    Parse(machineID) = NoErr /\ (machineID = NilUUID \/ UUIDVersion(machineID) # 7)

DeviceIdMessages ==
    {"Invalid machine ID format", "Machine ID must be a valid UUIDv7"}

\* What the claim says of one call of caller userID with request req, as a
\* relation between the state before and the state after the call.
DeviceIdChecked(userID, req) ==
    /\ NilOrNotV7(req.machine_id)
       => /\ resp'.status = "rejected"
          /\ UNCHANGED store
          /\ (userID # NoUser /\ req.user_id = userID) => ValidationFailed(resp')
    /\ req.machine_id \in Machines
       => ~(resp'.status = "rejected" /\ resp'.message \in DeviceIdMessages)

\* C20: for thread upsert, message update and the three settings updates, a
\* request whose machine_id is the nil UUID or a UUID of a version other
\* than 7 is rejected with a validation error and changes nothing stored; a
\* non-nil version-7 UUID passes the device-id check.
C20_DeviceIdMustBeV7 ==
    [][/\ resp'.op = "UpsertThread"
          => \A u \in Callers, req \in DeviceThreadRequests :
                UpsertThreadHandler(u, "t1", req) => DeviceIdChecked(u, req)
       /\ resp'.op = "UpdateMessage"
          => \A u \in Callers, req \in DeviceMessageRequests :
                UpdateMessageHandler(u, "x1", req) => DeviceIdChecked(u, req)
       /\ resp'.op \in {"UpdateProviderInstances", "UpdateSettings"}
          => \A u \in Callers, req \in DeviceSettingsRequests :
                UpdateProviderInstancesHandler(u, req) => DeviceIdChecked(u, req)
       /\ resp'.op \in {"UpdateDisabledModels", "UpdateSettings"}
          => \A u \in Callers, req \in DeviceSettingsRequests :
                UpdateDisabledModelsHandler(u, req) => DeviceIdChecked(u, req)
       /\ resp'.op \in {"UpdateAdvancedSettings", "UpdateSettings"}
          => \A u \in Callers, req \in DeviceSettingsRequests :
                UpdateAdvancedSettingsHandler(u, req) => DeviceIdChecked(u, req)
      ]_vars

\* A version-4 device id was refused while records of every kind are stored.
C20_Witness ==
    /\ resp.op = "UpdateAdvancedSettings"
    /\ resp.status = "rejected"
    /\ resp.message = "Machine ID must be a valid UUIDv7"
    /\ DOMAIN threads # {}
    /\ DOMAIN messages # {}
    /\ DOMAIN settings # {}

(***************************************************************************)
(* The service on a store whose operations can fail.  F is the set of      *)
(* store operations of one call that return an error; a failed operation   *)
(* has no effect on the store.  With F empty each definition below is the  *)
(* call of the same name above.                                            *)
(***************************************************************************)
Failed(F, point) == IF point \in F THEN "store error" ELSE NoErr

\* Mutant: the error of a side effect is returned to the caller.
BestEffort_propagate(err) == err

\* "Log error but don't fail the operation": what a failed change-log or
\* attribution write contributes to the error the call returns.
BestEffort(err) == NoErr

Outcome(err) == IF err # NoErr THEN "error" ELSE "ok"

UpsertThreadPoints == {"get", "set", "zadd", "attr"}

UpsertThreadWithFaults(thread, machineID, F) ==
    LET existing == IF Failed(F, "get") # NoErr
                    THEN [found |-> FALSE]
                    ELSE getThread(threads, thread.user_id, thread.id)
        isCreating == ~existing.found
    IN  IF ~isCreating /\ VersionConflict(thread, existing.thread)
        THEN /\ resp' = [op |-> "UpsertThread", status |-> "conflict",
                         created |-> FALSE]
             /\ UNCHANGED <<store, now, lastWritten, calls>>
        ELSE IF Failed(F, "set") # NoErr
        THEN /\ resp' = [op |-> "UpsertThread", status |-> "error",
                         created |-> FALSE]
             /\ UNCHANGED <<store, now, lastWritten, calls>>
        ELSE IF Failed(F, "zadd") # NoErr
        THEN /\ threads' = saveThreadSet(threads, thread)
             /\ resp' = [op |-> "UpsertThread", status |-> "error",
                         created |-> FALSE]
             /\ UNCHANGED <<tsIndex, messages, settings, changes, machineIds,
                            now, lastWritten, calls>>
        ELSE /\ threads' = saveThreadSet(threads, thread)
             /\ tsIndex' = saveThreadZAdd(tsIndex, thread)
             /\ machineIds' =
                    IF Failed(F, "attr") # NoErr
                    THEN machineIds
                    ELSE storeMachineIDForChange(machineIds, "thread",
                                                 thread.id, machineID, now)
             /\ resp' = [op |-> "UpsertThread",
                         status |-> Outcome(BestEffort(Failed(F, "attr"))),
                         created |-> isCreating]
             /\ lastWritten' = Set(lastWritten,
                                   ThreadKey(thread.user_id, thread.id),
                                   thread.version)
             /\ UNCHANGED <<messages, settings, changes, now, calls>>

DeleteThreadPoints == {"del", "zrem"}

DeleteThreadWithFaults(userID, threadID, F) ==
    IF Failed(F, "del") # NoErr
    THEN /\ resp' = [op |-> "DeleteThread", status |-> "error"]
         /\ UNCHANGED <<store, now, lastWritten, calls>>
    ELSE IF Failed(F, "zrem") # NoErr
    THEN /\ threads' = DeleteThreadDel(threads, userID, threadID)
         /\ resp' = [op |-> "DeleteThread", status |-> "error"]
         /\ UNCHANGED <<tsIndex, messages, settings, changes, machineIds, now,
                        lastWritten, calls>>
    ELSE /\ threads' = DeleteThreadDel(threads, userID, threadID)
         /\ tsIndex' = DeleteThreadZRem(tsIndex, userID, threadID)
         /\ resp' = [op |-> "DeleteThread", status |-> "ok"]
         /\ UNCHANGED <<messages, settings, changes, machineIds, now,
                        lastWritten, calls>>

CreateMessagePoints == {"set", "log"}

\* The message carries its id; the generation of a missing id is left to
\* CreateMessage above.
CreateMessageWithFaults(threadID, message, F) ==
    IF Failed(F, "set") # NoErr
    THEN /\ resp' = [op |-> "CreateMessage", status |-> "error"]
         /\ UNCHANGED <<store, now, lastWritten, calls>>
    ELSE /\ messages' = saveMessage(messages, threadID, message)
         /\ changes' =
                IF Failed(F, "log") # NoErr
                THEN changes
                ELSE storeMessageChange(changes, "message", message.id,
                                        "create", now, threadID)
         /\ resp' = [op |-> "CreateMessage",
                     status |-> Outcome(BestEffort(Failed(F, "log")))]
         /\ UNCHANGED <<threads, tsIndex, settings, machineIds, now,
                        lastWritten, calls>>

UpdateMessagePoints == {"set", "attr", "log"}

\* For a message id that is a UUID.
UpdateMessageWithFaults(threadID, message, machineID, F) ==
    IF Failed(F, "set") # NoErr
    THEN /\ resp' = [op |-> "UpdateMessage", status |-> "error"]
         /\ UNCHANGED <<store, now, lastWritten, calls>>
    ELSE /\ messages' = saveMessage(messages, threadID, message)
         /\ machineIds' =
                IF Failed(F, "attr") # NoErr
                THEN machineIds
                ELSE storeMachineIDForChange(machineIds, "message",
                                             message.id, machineID, now)
         /\ changes' =
                IF Failed(F, "log") # NoErr
                THEN changes
                ELSE storeMessageChange(changes, "message", message.id,
                                        "update", now, threadID)
         /\ resp' = [op |-> "UpdateMessage",
                     status |-> Outcome(IF BestEffort(Failed(F, "attr")) # NoErr
                                        THEN BestEffort(Failed(F, "attr"))
                                        ELSE BestEffort(Failed(F, "log")))]
         /\ UNCHANGED <<threads, tsIndex, settings, now, lastWritten, calls>>

DeleteMessagePoints == {"log", "del"}

DeleteMessageWithFaults(threadID, messageID, F) ==
    LET logged == IF Failed(F, "log") # NoErr
                  THEN changes
                  ELSE storeMessageChange(changes, "message", messageID,
                                          "delete", now, threadID)
    IN  IF BestEffort(Failed(F, "log")) # NoErr
        THEN /\ resp' = [op |-> "DeleteMessage", status |-> "error"]
             /\ UNCHANGED <<store, now, lastWritten, calls>>
        ELSE IF Failed(F, "del") # NoErr
        THEN /\ changes' = logged
             /\ resp' = [op |-> "DeleteMessage", status |-> "error"]
             /\ UNCHANGED <<threads, tsIndex, messages, settings, machineIds,
                            now, lastWritten, calls>>
        ELSE /\ changes' = logged
             /\ messages' = DeleteMessageDel(messages, threadID, messageID)
             /\ resp' = [op |-> "DeleteMessage", status |-> "ok"]
             /\ UNCHANGED <<threads, tsIndex, settings, machineIds, now,
                            lastWritten, calls>>

UpdateSingletonPoints == {"set", "attr"}

UpdateSingletonWithFaults(kind, record, machineID, F) ==
    LET stamped == StampSingleton(record, now)
    IN  IF Failed(F, "set") # NoErr
        THEN /\ resp' = [op |-> "UpdateSettings", status |-> "error"]
             /\ UNCHANGED <<store, now, lastWritten, calls>>
        ELSE /\ settings' = Set(settings, SettingsKey(kind, stamped.user_id),
                                stamped)
             /\ machineIds' =
                    IF Failed(F, "attr") # NoErr
                    THEN machineIds
                    ELSE storeMachineIDForChange(machineIds, kind,
                                                 stamped.user_id, machineID, now)
             /\ resp' = [op |-> "UpdateSettings",
                         status |-> Outcome(BestEffort(Failed(F, "attr")))]
             /\ UNCHANGED <<threads, tsIndex, messages, changes, now,
                            lastWritten, calls>>

(***************************************************************************)
(* One thread, one message and the settings of one owner on a store whose  *)
(* operations can fail, one call at a time.                                *)
(***************************************************************************)
FaultThreads == {Thread("u1", "t1", v, "a") : v \in Versions}

FaultMessages == {Message("x1", "a")}

FaultSettings == {Singleton("u1", 1, "a", 0)}

FaultKinds == {"provider_instances", "disabled_models"}

UpsertThreadFaultReq ==
    \E thread \in FaultThreads, F \in SUBSET UpsertThreadPoints :
        UpsertThreadWithFaults(thread, "m1", F)

DeleteThreadFaultReq ==
    \E F \in SUBSET DeleteThreadPoints : DeleteThreadWithFaults("u1", "t1", F)

CreateMessageFaultReq ==
    \E message \in FaultMessages, F \in SUBSET CreateMessagePoints :
        CreateMessageWithFaults("t1", message, F)

UpdateMessageFaultReq ==
    \E message \in FaultMessages, F \in SUBSET UpdateMessagePoints :
        UpdateMessageWithFaults("t1", message, "m1", F)

DeleteMessageFaultReq ==
    \E F \in SUBSET DeleteMessagePoints : DeleteMessageWithFaults("t1", "x1", F)

UpdateSettingsFaultReq ==
    \E kind \in FaultKinds, record \in FaultSettings,
       F \in SUBSET UpdateSingletonPoints :
        UpdateSingletonWithFaults(kind, record, "m1", F)

NextFaults ==
    \/ UpsertThreadFaultReq
    \/ DeleteThreadFaultReq
    \/ CreateMessageFaultReq
    \/ UpdateMessageFaultReq
    \/ DeleteMessageFaultReq
    \/ UpdateSettingsFaultReq

SpecFaults == Init /\ [][NextFaults]_vars

\* C21: when the primary record write succeeds but the change-log write or
\* the attribution write fails, the operation (thread upsert, settings
\* update, message create, update and delete) still returns success and the
\* primary record stays written.
C21_SideEffectFailureNotSurfaced ==
    [][/\ resp'.op = "UpsertThread"
          => \A thread \in FaultThreads, F \in SUBSET UpsertThreadPoints :
                (/\ UpsertThreadWithFaults(thread, "m1", F)
                 /\ resp'.status # "conflict"
                 /\ F \cap {"set", "zadd"} = {}
                 /\ "attr" \in F)
                => /\ resp'.status = "ok"
                   /\ getThread(threads', "u1", "t1").found
                   /\ getThread(threads', "u1", "t1").thread = thread
       /\ resp'.op = "UpdateSettings"
          => \A kind \in FaultKinds, record \in FaultSettings,
                F \in SUBSET UpdateSingletonPoints :
                (/\ UpdateSingletonWithFaults(kind, record, "m1", F)
                 /\ "set" \notin F
                 /\ "attr" \in F)
                => /\ resp'.status = "ok"
                   /\ GetSingleton(settings', kind, "u1").found
                   /\ GetSingleton(settings', kind, "u1").value
                      = StampSingleton(record, now)
       /\ resp'.op = "CreateMessage"
          => \A message \in FaultMessages, F \in SUBSET CreateMessagePoints :
                (/\ CreateMessageWithFaults("t1", message, F)
                 /\ "set" \notin F
                 /\ "log" \in F)
                => /\ resp'.status = "ok"
                   /\ MessageKey("t1", message.id) \in DOMAIN messages'
                   /\ messages'[MessageKey("t1", message.id)] = message
       /\ resp'.op = "UpdateMessage"
          => \A message \in FaultMessages, F \in SUBSET UpdateMessagePoints :
                (/\ UpdateMessageWithFaults("t1", message, "m1", F)
                 /\ "set" \notin F
                 /\ F \cap {"attr", "log"} # {})
                => /\ resp'.status = "ok"
                   /\ MessageKey("t1", message.id) \in DOMAIN messages'
                   /\ messages'[MessageKey("t1", message.id)] = message
       /\ resp'.op = "DeleteMessage"
          => \A F \in SUBSET DeleteMessagePoints :
                (/\ DeleteMessageWithFaults("t1", "x1", F)
                 /\ "del" \notin F
                 /\ "log" \in F)
                => /\ resp'.status = "ok"
                   /\ MessageKey("t1", "x1") \notin DOMAIN messages'
      ]_vars

\* A thread upsert succeeded and its record is stored although no
\* attribution for a thread was ever stored.
C21_Witness ==
    /\ resp.op = "UpsertThread"
    /\ resp.status = "ok"
    /\ getThread(threads, "u1", "t1").found
    /\ \A k \in DOMAIN machineIds : k[1] # "thread"

\* C22: whenever UpsertThread or DeleteThread returns an error, the stored
\* thread record for that (owner, id) is the same as before the call.
C22_PrimaryWriteAtomic ==
    [][(resp'.op \in {"UpsertThread", "DeleteThread"} /\ resp'.status = "error")
       => getThread(threads', "u1", "t1") = getThread(threads, "u1", "t1")]_vars

\* C30: UpsertThread reports created = true if and only if no record
\* existed for (owner, id) before the call; when a record exists, also when
\* reading it fails, the version check is not skipped.
C30_CreatedIffAbsent ==
    [][resp'.op = "UpsertThread"
       => \A thread \in FaultThreads, F \in SUBSET UpsertThreadPoints :
             UpsertThreadWithFaults(thread, "m1", F)
             => /\ resp'.status = "ok"
                   => (resp'.created <=> ThreadKey("u1", "t1") \notin DOMAIN threads)
                /\ (/\ ThreadKey("u1", "t1") \in DOMAIN threads
                    /\ thread.version <= threads[ThreadKey("u1", "t1")].version)
                   => resp'.status # "ok"]_vars

(***************************************************************************)
(* DeleteMessage one store operation at a time, for calls that overlap     *)
(* with other message operations.                                          *)
(***************************************************************************)
\* time.Now() and storeMessageChange of the delete entry.
DeleteMessageLog(p, threadID, messageID) ==
    /\ calls[p].pc = "idle"
    /\ changes' = storeMessageChange(changes, "message", messageID, "delete",
                                     now, threadID)
    /\ calls' = [calls EXCEPT ![p] =
           [pc |-> "del", message_id |-> messageID, thread_id |-> threadID]]
    /\ UNCHANGED <<threads, tsIndex, messages, settings, machineIds, now, resp,
                   lastWritten>>

\* Del of the record, then the call returns.
DeleteMessageRemove(p) ==
    /\ calls[p].pc = "del"
    /\ messages' = DeleteMessageDel(messages, calls[p].thread_id,
                                    calls[p].message_id)
    /\ resp' = [op |-> "DeleteMessage",
                status |-> DelStatus(messages, MessageKey(calls[p].thread_id,
                                                          calls[p].message_id))]
    /\ calls' = [calls EXCEPT ![p] = Idle]
    /\ UNCHANGED <<threads, tsIndex, settings, changes, machineIds, now,
                   lastWritten>>

NextDeleteMessage ==
    \/ Tick
    \/ \E p \in Procs : DeleteMessageLog(p, "t1", "x1")
    \/ \E p \in Procs : DeleteMessageRemove(p)
    \/ CreateMessageReq({"t1"}, {"x1"}, {"a"})
    \/ UpdateMessageReq({"t1"}, {"x1"}, {"a"}, {"m1"})

SpecDeleteMessage == Init /\ [][NextDeleteMessage]_vars

DeleteEntryExists(log, messageID) ==
    \E k \in DOMAIN log :
        log[k].message_id = messageID /\ log[k].operation = "delete"

DeleteInProgress(messageID) ==
    \E p \in Procs : calls[p].pc = "del" /\ calls[p].message_id = messageID

\* C23: at the moment DeleteMessage removes the record a delete entry for
\* that message id exists, and a delete entry exists for a message whose
\* record is still present only while a DeleteMessage call is in progress.
C23_DeleteLoggedBeforeRemoval ==
    /\ [][\A p \in Procs :
             DeleteMessageRemove(p)
             => DeleteEntryExists(changes, calls[p].message_id)]_vars
    /\ [](\A k \in DOMAIN messages :
             DeleteEntryExists(changes, k[2]) => DeleteInProgress(k[2]))

IncrementalCursors == Cursors \ {GoZeroMs}

\* C24: after DeleteThread an incremental sync of the owner, from any
\* cursor, returns no operation of any kind for that thread id, and no
\* delete operation for a thread at all.
C24_ThreadDeleteNotInFeed ==
    [][\A k \in ThreadScope :
          DeleteThread(k[1], k[2])
          => \A c \in IncrementalCursors :
                LET body == GetChangesSince(k[1], FromUnixMilli(c))'
                IN  /\ OperationsFor(body, "thread", k[2]) = {}
                    /\ \A o \in body.operations : o.id # k[2]
                    /\ \A o \in body.operations :
                          o.resource = "thread" => o.operation # "delete"]_vars

\* A thread that was stored has been deleted while another thread of the
\* same owner is still stored.
C24_Witness ==
    /\ resp.op = "DeleteThread"
    /\ ThreadKey("u1", "t1") \in DOMAIN lastWritten
    /\ ThreadKey("u1", "t1") \notin DOMAIN threads
    /\ ThreadKey("u1", "t2") \in DOMAIN threads

\* An attribution entry for (kind, id, the current millisecond) names a
\* device.
Attributed(kind, id) ==
    getMachineIDForChange(machineIds, kind, id, now) \in Machines

\* C25: every successful mutation (thread upsert, settings update, message
\* create, update and delete) records an attribution entry for (resource
\* kind, resource id, change time) that names the device.
C25_EveryMutationAttributed ==
    [][/\ (UpsertThreadReq({<<"u1", "t1">>}, {"a"}, {"m1"}) /\ resp'.status = "ok")
          => Attributed("thread", "t1")'
       /\ UpdateSettingsReq({"u1"}, {1}, {"a"}, {"m1"})
          => \E kind \in SettingsKinds : Attributed(kind, "u1")'
       /\ CreateMessageReq({"t1"}, {"x1"}, {"a"})
          => Attributed("message", "x1")'
       /\ UpdateMessageReq({"t1"}, {"x1"}, {"a"}, {"m1"})
          => Attributed("message", "x1")'
       /\ DeleteMessageReq({"t1"}, {"x1"})
          => Attributed("message", "x1")']_vars

(***************************************************************************)
(* The operations on messages and the feed as the clock advances over      *)
(* several milliseconds, one call at a time; a message id of a create or   *)
(* delete request is any string.                                           *)
(***************************************************************************)
NextMessages ==
    \/ Tick
    \/ CreateMessageReq({"t1"}, MessageIdParams, {"a"})
    \/ UpdateMessageReq({"t1"}, {"x1"}, {"a"}, {"m1"})
    \/ DeleteMessageReq({"t1"}, MessageIdParams)
    \/ GetChangesSinceReq({"u1"})

SpecMessages == Init /\ [][NextMessages]_vars

\* The operation the feed makes of change-log entry c: the record of the
\* message as payload if the entry is not a delete and the record is
\* stored, no payload otherwise.
ExpectedOperation(c, o) ==
    /\ o.resource = "message"
    /\ o.id = c.message_id
    /\ o.operation = c.operation
    /\ o.timestamp = FromUnixMilli(c.timestamp)
    /\ o.data = IF /\ c.operation # "delete"
                   /\ MessageKey(c.thread_id, c.message_id) \in DOMAIN messages
                THEN messages[MessageKey(c.thread_id, c.message_id)]
                ELSE NoData

\* Change-log entry c is a delete, or the record of its message is gone.
WithoutRecord(c) ==
    \/ c.operation = "delete"
    \/ MessageKey(c.thread_id, c.message_id) \notin DOMAIN messages

\* C26: an incremental sync whose cursor is before a delete entry, or
\* before an entry whose record is gone, does not fail and returns every
\* such entry as an operation without payload.
C26_MissingRecordDegradesToNoPayload ==
    [][\A c \in IncrementalCursors :
          (/\ GetChangesSinceHandler("u1", c)
           /\ \E k \in DOMAIN changes :
                 /\ ChangeIsNewer(changes[k], FromUnixMilli(c))
                 /\ WithoutRecord(changes[k]))
          => /\ resp'.status = "ok"
             /\ \A k \in DOMAIN changes :
                   (/\ ChangeIsNewer(changes[k], FromUnixMilli(c))
                    /\ WithoutRecord(changes[k]))
                   => \E o \in resp'.body.operations :
                         ExpectedOperation(changes[k], o) /\ o.data = NoData]_vars

\* The step adds one entry to the change log and leaves the others as they
\* were.
AppendsOneEntry ==
    /\ Cardinality(DOMAIN changes') = Cardinality(DOMAIN changes) + 1
    /\ \A k \in DOMAIN changes : k \in DOMAIN changes' /\ changes'[k] = changes[k]

\* C27: a change-log entry is never overwritten or altered: every message
\* create, update and delete adds its own entry, also when several
\* mutations of the same message id happen within one server millisecond.
C27_ChangeLogAppendOnly ==
    [][/\ CreateMessageReq({"t1"}, {"x1"}, {"a"}) => AppendsOneEntry
       /\ UpdateMessageReq({"t1"}, {"x1"}, {"a"}, {"m1"}) => AppendsOneEntry
       /\ DeleteMessageReq({"t1"}, {"x1"}) => AppendsOneEntry]_vars

\* The device stored for exactly (kind, id, ms), the empty string if none.
ExactOrigin(kind, id, ms) ==
    IF <<kind, id, ms>> \in DOMAIN machineIds
    THEN machineIds[<<kind, id, ms>>]
    ELSE ""

ClientUpdatedAt == {0, MaxTime}

\* C29: for the three singleton settings resources the stored updated_at is
\* the server clock at the time of the write, whatever updated_at the
\* request carried, and it is this value that is compared with the cursor
\* and reported as the timestamp of the operation.
C29_UpdatedAtIsServerClock ==
    [][\A kind \in SettingsKinds, v \in Versions, d \in Payloads,
          given \in ClientUpdatedAt :
          UpdateSingleton(kind, Singleton("u1", v, d, given), "m1")
          => /\ settings'[SettingsKey(kind, "u1")].updated_at = now
             /\ \A c \in IncrementalCursors :
                   LET ops == OperationsFor(
                                  GetChangesSince("u1", FromUnixMilli(c))',
                                  kind, "u1")
                   IN  /\ (ops # {}) <=> After(now, FromUnixMilli(c))
                       /\ \A o \in ops : o.timestamp = now]_vars

\* A settings record is stored with the current server time, which is none
\* of the values a client sends.
C29_Witness ==
    /\ resp.op = "UpdateSettings"
    /\ now \notin ClientUpdatedAt
    /\ \E k \in DOMAIN settings : settings[k].updated_at = now

(***************************************************************************)
(* The incremental feed of one owner over a thread, a settings record and  *)
(* messages, one call at a time as the clock advances; the message id of a *)
(* create request is any string.                                           *)
(***************************************************************************)
NextFeed ==
    \/ Tick
    \/ UpsertThreadReq({<<"u1", "t1">>}, {"a"}, {"m1"})
    \/ \E v \in Versions :
          UpdateProviderInstances(Singleton("u1", v, "a", 0), "m1")
    \/ CreateMessageReq({"t1"}, MessageIdParams, {"a"})
    \/ GetChangesSinceReq({"u1"})

SpecFeed == Init /\ [][NextFeed]_vars

\* C31: with no write in progress, an incremental sync with cursor c
\* returns an update operation for every stored thread of the owner whose
\* version, as milliseconds, is after c, an update operation for each
\* singleton settings record of the owner if and only if its updated_at is
\* after c, and an operation for every change-log entry whose timestamp is
\* after c.
C31_FeedCompleteAtQuiescence ==
    [][resp'.op = "GetChangesSince"
       => \A c \in IncrementalCursors :
             GetChangesSinceHandler("u1", c)
             => /\ resp'.status = "ok"
                /\ \A k \in DOMAIN threads :
                      (k[1] = "u1" /\ FromUnixMilli(threads[k].version)
                                         > FromUnixMilli(c))
                      => \E o \in OperationsFor(resp'.body, "thread", k[2]) :
                            o.operation = "update" /\ o.data = threads[k]
                /\ \A kind \in SettingsKinds :
                      (\E o \in OperationsFor(resp'.body, kind, "u1") :
                            o.operation = "update")
                      <=> (/\ SettingsKey(kind, "u1") \in DOMAIN settings
                           /\ settings[SettingsKey(kind, "u1")].updated_at
                                 > FromUnixMilli(c))
                /\ \A k \in DOMAIN changes :
                      FromUnixMilli(changes[k].timestamp) > FromUnixMilli(c)
                      => \E o \in OperationsFor(resp'.body, "message",
                                                changes[k].message_id) :
                            /\ o.operation = changes[k].operation
                            /\ o.timestamp = FromUnixMilli(changes[k].timestamp)
      ]_vars

(***************************************************************************)
(* UpdateMessage one store operation at a time, for calls that overlap.    *)
(***************************************************************************)
\* saveMessage: SET of the record.
UpdateMessageSet(p, threadID, message, machineID) ==
    /\ calls[p].pc = "idle"
    /\ messages' = saveMessage(messages, threadID, message)
    /\ calls' = [calls EXCEPT ![p] =
           [pc |-> "attr", machineID |-> machineID, message |-> message,
            thread_id |-> threadID]]
    /\ UNCHANGED <<threads, tsIndex, settings, changes, machineIds, now, resp,
                   lastWritten>>

\* time.Now(), uuid.MustParse(message.ID) and storeMachineIDForChange.
UpdateMessageAttr(p) ==
    /\ calls[p].pc = "attr"
    /\ IF Parse(calls[p].message.id) # NoErr
       THEN /\ resp' = [op |-> "UpdateMessage", status |-> "panic"]
            /\ calls' = [calls EXCEPT ![p] = Idle]
            /\ UNCHANGED machineIds
       ELSE /\ machineIds' = storeMachineIDForChange(
                                 machineIds, "message", calls[p].message.id,
                                 calls[p].machineID, now)
            /\ calls' = [calls EXCEPT ![p] =
                   [now |-> now, pc |-> "log", machineID |-> calls[p].machineID,
                    message |-> calls[p].message,
                    thread_id |-> calls[p].thread_id]]
            /\ UNCHANGED resp
    /\ UNCHANGED <<threads, tsIndex, messages, settings, changes, now,
                   lastWritten>>

\* storeMessageChange of the update entry, then the call returns.
UpdateMessageLog(p) ==
    /\ calls[p].pc = "log"
    /\ changes' = storeMessageChange(changes, "message", calls[p].message.id,
                                     "update", calls[p].now, calls[p].thread_id)
    /\ resp' = [op |-> "UpdateMessage", status |-> "ok"]
    /\ calls' = [calls EXCEPT ![p] = Idle]
    /\ UNCHANGED <<threads, tsIndex, messages, settings, machineIds, now,
                   lastWritten>>

NextUpdateMessage ==
    \/ Tick
    \/ \E p \in Procs, d \in Payloads, m \in Machines :
          UpdateMessageSet(p, "t1", Message("x1", d), m)
    \/ \E p \in Procs : UpdateMessageAttr(p)
    \/ \E p \in Procs : UpdateMessageLog(p)

SpecUpdateMessage == Init /\ [][NextUpdateMessage]_vars

\* C32: UpdateMessage persists unconditionally: it never reports a
\* conflict, it overwrites whatever record is stored for (thread, message
\* id) and creates the record when none is stored, so that of two updates
\* of the same message that overlap both succeed and the record written
\* last stays; each successful update appends one update entry to the
\* change log.
C32_UpdateMessageUnconditional ==
    [][/\ \A p \in Procs, d \in Payloads, m \in Machines :
             UpdateMessageSet(p, "t1", Message("x1", d), m)
             => messages'[MessageKey("t1", "x1")] = Message("x1", d)
       /\ \A p \in Procs :
             UpdateMessageLog(p)
             => /\ resp'.status = "ok"
                /\ AppendsOneEntry
                /\ \E k \in DOMAIN changes' \ DOMAIN changes :
                      /\ changes'[k].operation = "update"
                      /\ changes'[k].message_id = calls[p].message.id]_vars

\* C33: an incremental sync completes with a response whatever the change
\* log holds: no sequence of CreateMessage, UpdateMessage and DeleteMessage
\* calls, message ids that are no UUID included, leaves the change log in a
\* state in which an incremental sync of some user, from some cursor,
\* aborts.
C33_IncrementalSyncAlwaysReturns ==
    [][resp'.op = "GetChangesSince"
       => \A u \in Users, c \in IncrementalCursors :
             GetChangesSinceHandler(u, c) => resp'.status = "ok"]_vars

(***************************************************************************)
(* A settings update one store operation at a time, for calls of two       *)
(* devices that overlap.  Each device sends its own payload.               *)
(***************************************************************************)
\* time.Now() and the stamping of the record.
UpdateSingletonNow(p, kind, record, machineID) ==
    /\ calls[p].pc = "idle"
    /\ calls' = [calls EXCEPT ![p] =
           [now |-> now, pc |-> "set", machineID |-> machineID, kind |-> kind,
            record |-> StampSingleton(record, now)]]
    /\ UNCHANGED <<store, now, resp, lastWritten>>

\* SET of the record.
UpdateSingletonSet(p) ==
    /\ calls[p].pc = "set"
    /\ settings' = Set(settings,
                       SettingsKey(calls[p].kind, calls[p].record.user_id),
                       calls[p].record)
    /\ calls' = [calls EXCEPT ![p].pc = "attr"]
    /\ UNCHANGED <<threads, tsIndex, messages, changes, machineIds, now, resp,
                   lastWritten>>

\* storeMachineIDForChange, then the call returns.
UpdateSingletonReturn(p) ==
    /\ calls[p].pc = "attr"
    /\ machineIds' = storeMachineIDForChange(machineIds, calls[p].kind,
                                             calls[p].record.user_id,
                                             calls[p].machineID, calls[p].now)
    /\ resp' = [op |-> "UpdateSettings", status |-> "ok"]
    /\ calls' = [calls EXCEPT ![p] = Idle]
    /\ UNCHANGED <<threads, tsIndex, messages, settings, changes, now,
                   lastWritten>>

\* The payload each device sends.
DevicePayloads == {<<"m1", "a">>, <<"m2", "b">>}

NextSettingsConcurrent ==
    \/ Tick
    \/ \E p \in Procs, dp \in DevicePayloads :
          UpdateSingletonNow(p, "provider_instances",
                             Singleton("u1", 1, dp[2], 0), dp[1])
    \/ \E p \in Procs : UpdateSingletonSet(p)
    \/ \E p \in Procs : UpdateSingletonReturn(p)

SpecSettingsConcurrent == Init /\ [][NextSettingsConcurrent]_vars

\* C34: when two devices update the same singleton settings resource in
\* calls that overlap, possibly within one server millisecond, then once
\* the calls have returned the machine_id of the update operation an
\* incremental sync reports is the device whose write produced the payload
\* the operation carries.
C34_AttributionMatchesPayload ==
    (\A p \in Procs : calls[p].pc = "idle")
    => \A c \in IncrementalCursors :
          \A o \in OperationsFor(GetChangesSince("u1", FromUnixMilli(c)),
                                 "provider_instances", "u1") :
             \E dp \in DevicePayloads :
                dp[2] = o.data.data /\ dp[1] = o.machine_id

(***************************************************************************)
(* DeleteThread one store operation at a time, and the UpsertThread and    *)
(* DeleteThread calls of one owner's thread that overlap.  A process makes *)
(* one call after another.                                                 *)
(***************************************************************************)
\* DEL of the record.
DeleteThreadDelStep(p, userID, threadID) ==
    /\ calls[p].pc \in {"idle", "done"}
    /\ threads' = DeleteThreadDel(threads, userID, threadID)
    /\ calls' = [calls EXCEPT ![p] =
           [pc |-> "zrem", thread |-> Thread(userID, threadID, 0, "")]]
    /\ UNCHANGED <<tsIndex, messages, settings, changes, machineIds, now, resp,
                   lastWritten>>

\* ZREM from the timestamp index, then the call returns.
DeleteThreadZRemStep(p) ==
    /\ calls[p].pc = "zrem"
    /\ tsIndex' = DeleteThreadZRem(tsIndex, calls[p].thread.user_id,
                                   calls[p].thread.id)
    /\ calls' = [calls EXCEPT ![p] = Idle]
    /\ UNCHANGED <<threads, messages, settings, changes, machineIds, now, resp,
                   lastWritten>>

\* The process takes up its next call.
NextCall(p) ==
    /\ calls[p].pc = "done"
    /\ calls' = [calls EXCEPT ![p] = Idle]
    /\ UNCHANGED <<store, now, resp, lastWritten>>

NextIndex ==
    \/ \E p \in Procs, v \in Versions :
          UpsertThreadGet(p, Thread("u1", "t1", v, "a"), "m1")
    \/ \E p \in Procs : UpsertThreadSet(p)
    \/ \E p \in Procs : UpsertThreadZAdd(p)
    \/ \E p \in Procs : UpsertThreadReturn(p)
    \/ \E p \in Procs : NextCall(p)
    \/ \E p \in Procs : DeleteThreadDelStep(p, "u1", "t1")
    \/ \E p \in Procs : DeleteThreadZRemStep(p)

SpecIndex == Init /\ [][NextIndex]_vars

ReadPoints ==
    {"threads", "messages", "provider_instances", "disabled_models",
     "advanced_settings", "changes"}

\* Mutant: the error of a read is returned to the caller.
Discard_return(err) == err

\* The error of a read is assigned to the blank identifier, or only tested
\* to skip the kind; GetChangesSince returns nil in its place.
Discard(err) == NoErr

GetChangesSinceWithFaults(userID, timestamp, F) ==
    LET complete == GetChangesSince(userID, timestamp)
        read(point, value, none) ==
            IF Failed(F, point) # NoErr THEN none ELSE value
    IN  IF IsZero(timestamp)
        THEN [threads |-> read("threads", complete.threads, {}),
              messages |-> read("messages", complete.messages, {}),
              full |-> TRUE,
              provider_instances |->
                  read("provider_instances", complete.provider_instances, NoData),
              disabled_models |->
                  read("disabled_models", complete.disabled_models, NoData),
              advanced_settings |->
                  read("advanced_settings", complete.advanced_settings, NoData),
              operations |-> {},
              sync_timestamp |-> now]
        ELSE [threads |-> {},
              messages |-> {},
              full |-> FALSE,
              provider_instances |-> NoData,
              disabled_models |-> NoData,
              advanced_settings |-> NoData,
              operations |->
                  read("threads", ThreadOperations(userID, timestamp), {})
                  \cup read("provider_instances",
                            SingletonOperations("provider_instances", userID,
                                                timestamp), {})
                  \cup read("disabled_models",
                            SingletonOperations("disabled_models", userID,
                                                timestamp), {})
                  \cup read("advanced_settings",
                            SingletonOperations("advanced_settings", userID,
                                                timestamp), {})
                  \cup read("changes", getMessageChangesSince(timestamp), {}),
              sync_timestamp |-> now]

\* The error GetChangesSince returns when the reads of F fail.
GetChangesSinceErr(F) ==
    Discard(IF F \cap ReadPoints # {} THEN "store error" ELSE NoErr)

\* SyncHandler.GetChangesSince over the failing store.
GetChangesSinceFaultHandler(userID, timestampInt, F) ==
    /\ resp' = IF /\ MustParsePanics(FromUnixMilli(timestampInt))
                  /\ Failed(F, "changes") = NoErr
               THEN [op |-> "GetChangesSince", status |-> "panic",
                     user |-> userID, cursor |-> timestampInt]
               ELSE IF GetChangesSinceErr(F) # NoErr
               THEN [op |-> "GetChangesSince", status |-> "error",
                     user |-> userID, cursor |-> timestampInt, failed |-> F]
               ELSE [op |-> "GetChangesSince", status |-> "ok",
                     user |-> userID, cursor |-> timestampInt,
                     body |-> GetChangesSinceWithFaults(
                                  userID, FromUnixMilli(timestampInt), F),
                     failed |-> F]
    /\ UNCHANGED <<store, now, lastWritten, calls>>

\* The reads that fail in one call: none, one, or all of them.
ReadFaults == {{}, ReadPoints} \cup {{point} : point \in ReadPoints}

NextReadFaults ==
    \/ TickWithinMs
    \/ UpsertThreadReq({<<"u1", "t1">>}, {"a"}, {"m1"})
    \/ \E kind \in FaultKinds :
          UpdateSingleton(kind, Singleton("u1", 1, "a", 0), "m1")
    \/ CreateMessageReq({"t1"}, {"x1"}, {"a"})
    \/ \E c \in Cursors, F \in ReadFaults :
          GetChangesSinceFaultHandler("u1", c, F)

SpecReadFaults == Init /\ [][NextReadFaults]_vars

\* What the response holds of the kind read at point: nothing if the read
\* failed, what a call without failures returns otherwise.
KindOf(body, point) ==
    IF body.full
    THEN IF point = "changes" THEN {} ELSE body[point]
    ELSE IF point = "messages" THEN {}
    ELSE {o \in body.operations :
             o.resource = IF point = "changes" THEN "message"
                          ELSE IF point = "threads" THEN "thread" ELSE point}

NextMessageIsolation ==
    \/ UpsertThreadReq({<<"u1", "t1">>, <<"u2", "t2">>}, {"a"}, {"m1"})
    \/ \E t \in ThreadIds : CreateMessageHandler(t, Message("x1", "a"))
    \/ \E t \in ThreadIds :
          UpdateMessageHandler("u1", "x1", MessageUpdateRequest("m1", "u1", t, "b"))
    \/ \E t \in ThreadIds : DeleteMessageHandler(t, "x1")
    \/ GetChangesSinceReq({"u2"})

SpecMessageIsolation == Init /\ [][NextMessageIsolation]_vars

\* The call is refused and the messages stored in thread t, the change log
\* and what the thread's owner is given by a sync are as before.
RefusedLeaving(userID, threadID) ==
    /\ resp'.status = "rejected"
    /\ \A k \in DOMAIN messages \cup DOMAIN messages' :
          k[1] = threadID
          => k \in DOMAIN messages /\ k \in DOMAIN messages'
             /\ messages'[k] = messages[k]
    /\ changes' = changes
    /\ \A c \in Cursors :
          GetChangesSince(userID, FromUnixMilli(c))'
          = GetChangesSince(userID, FromUnixMilli(c))

\* C37: an authenticated user creates, updates or deletes a message only in
\* a thread that user owns: a message write of user u1 that names a thread
\* owned by u2 is rejected and leaves u2's stored messages and u2's change
\* feed unchanged.
C37_MessageWriteIsolation ==
    [][\A t \in ThreadIds :
          ForeignThread("u1", t)
          => /\ CreateMessageHandler(t, Message("x1", "a"))
                => RefusedLeaving("u2", t)
             /\ UpdateMessageHandler("u1", "x1",
                                     MessageUpdateRequest("m1", "u1", t, "b"))
                => RefusedLeaving("u2", t)
             /\ DeleteMessageHandler(t, "x1")
                => RefusedLeaving("u2", t)]_vars

\* The users that make authenticated calls in SpecDeviceIds.
Authenticated == Callers \ {NoUser}

\* A call of userID whose body names another user is refused and nothing
\* stored changes.
OwnBodyOnly(userID, req) ==
    req.user_id # userID => (resp'.status = "rejected" /\ UNCHANGED store)

\* C38: thread and settings writes are confined to the authenticated owner:
\* a thread upsert or settings update whose body user_id is not the
\* authenticated user is rejected and changes nothing, and every thread and
\* settings record is stored under the key of the user_id it carries, which
\* is a user that made the call.
C38_WritesConfinedToOwner ==
    [][/\ resp'.op = "UpsertThread"
          => \A u \in Callers, req \in DeviceThreadRequests :
                UpsertThreadHandler(u, "t1", req) => OwnBodyOnly(u, req)
       /\ resp'.op \in {"UpdateProviderInstances", "UpdateSettings"}
          => \A u \in Callers, req \in DeviceSettingsRequests :
                UpdateProviderInstancesHandler(u, req) => OwnBodyOnly(u, req)
       /\ resp'.op \in {"UpdateDisabledModels", "UpdateSettings"}
          => \A u \in Callers, req \in DeviceSettingsRequests :
                UpdateDisabledModelsHandler(u, req) => OwnBodyOnly(u, req)
       /\ resp'.op \in {"UpdateAdvancedSettings", "UpdateSettings"}
          => \A u \in Callers, req \in DeviceSettingsRequests :
                UpdateAdvancedSettingsHandler(u, req) => OwnBodyOnly(u, req)
       /\ \A k \in DOMAIN threads' :
             threads'[k].user_id = k[1] /\ k[1] \in Authenticated
       /\ \A k \in DOMAIN settings' :
             settings'[k].user_id = k[2] /\ k[2] \in Authenticated]_vars

\* A thread upsert whose body names another user was refused while a thread
\* and a settings record of the caller are stored.
C38_Witness ==
    /\ resp.op = "UpsertThread"
    /\ resp.status = "rejected"
    /\ resp.code = "StatusForbidden"
    /\ DOMAIN threads # {}
    /\ DOMAIN settings # {}

(***************************************************************************)
(* Authentication: the tokens AuthService issues and the two places that   *)
(* accept one, the RequireAuth middleware of the sync endpoints and the    *)
(* refresh endpoint.  A token is the claims it carries, the algorithm of   *)
(* its header and the key it is signed with; token lifetimes are counted   *)
(* in clock ticks.                                                         *)
(***************************************************************************)
\* Lifetime of an access token, scaled down from one hour.
AccessTTL == 1

\* Lifetime of a refresh token, scaled down from seven days.
RefreshTTL == 2

JwtSecret == "secret"

Claims(userID, type, exp, alg, key) ==
    [key |-> key, user_id |-> userID, type |-> type, exp |-> exp, alg |-> alg]

generateAccessToken(userID) ==
    Claims(userID, "access", now + AccessTTL, "HS256", JwtSecret)

generateRefreshToken(userID) ==
    Claims(userID, "refresh", now + RefreshTTL, "HS256", JwtSecret)

AuthTokens(userID) ==
    [access_token |-> generateAccessToken(userID),
     refresh_token |-> generateRefreshToken(userID)]

\* jwt.Parse with the key function of ValidateToken: the algorithm must be
\* an HMAC one, the signature must verify under the server's secret and the
\* token must not have expired; then the user_id claim is parsed.
ValidateToken(tokenString) ==
    IF tokenString.alg # "HS256"
    THEN [user_id |-> NoUser, err |-> "unexpected signing method"]
    ELSE IF tokenString.key # JwtSecret
    THEN [user_id |-> NoUser, err |-> "signature is invalid"]
    ELSE IF ~(now < tokenString.exp)
    THEN [user_id |-> NoUser, err |-> "token is expired"]
    ELSE IF Parse(tokenString.user_id) # NoErr
    THEN [user_id |-> NoUser, err |-> "invalid user_id format"]
    ELSE [user_id |-> tokenString.user_id, err |-> NoErr]

\* AuthService.RefreshToken: the error, NoErr when new tokens are issued.
RefreshTokenErr(refreshToken) ==
    IF ValidateToken(refreshToken).err # NoErr
    THEN "invalid refresh token" ELSE NoErr

NoHeader == [scheme |-> ""]

Header(scheme, token) == [scheme |-> scheme, token |-> token]

\* The RequireAuth middleware: the message of the 401 it answers, NoErr
\* when it sets the user and hands the request on.
RequireAuth(authHeader) ==
    IF authHeader = NoHeader
    THEN "Authorization header required"
    ELSE IF authHeader.scheme # "Bearer"
    THEN "Invalid authorization header format"
    ELSE IF ValidateToken(authHeader.token).err # NoErr
    THEN "Invalid or expired token"
    ELSE NoErr

\* AuthHandler.Login of a client with the right passphrase: the client
\* keeps the two tokens.
LoginReq(p, userID) ==
    /\ calls[p].pc \in {"idle", "session"}
    /\ calls' = [calls EXCEPT ![p] =
           [pc |-> "session", tokens |-> AuthTokens(userID)]]
    /\ resp' = [op |-> "Login", status |-> "ok"]
    /\ UNCHANGED <<store, now, lastWritten>>

\* A request to a sync endpoint with the Authorization header given.
SyncEndpointReq(authHeader) ==
    /\ resp' = [op |-> "RequireAuth",
                status |-> IF RequireAuth(authHeader) = NoErr
                           THEN "ok" ELSE "rejected",
                message |-> RequireAuth(authHeader),
                header |-> authHeader]
    /\ UNCHANGED <<store, now, lastWritten, calls>>

\* AuthHandler.RefreshToken of client p with the token given as
\* refresh_token: on success the client keeps the new tokens.
RefreshTokenReq(p, token) ==
    /\ calls[p].pc = "session"
    /\ resp' = [op |-> "RefreshToken",
                status |-> IF RefreshTokenErr(token) = NoErr
                           THEN "ok" ELSE "rejected",
                message |-> RefreshTokenErr(token),
                header |-> Header("body", token)]
    /\ calls' = IF RefreshTokenErr(token) = NoErr
                THEN [calls EXCEPT ![p].tokens =
                         AuthTokens(ValidateToken(token).user_id)]
                ELSE calls
    /\ UNCHANGED <<store, now, lastWritten>>

\* Headers that carry no token the server issued.
ForeignHeaders ==
    {NoHeader,
     Header("Basic", Claims("u1", "access", MaxTime + 1, "HS256", JwtSecret)),
     Header("Bearer", Claims("u1", "access", MaxTime + 1, "HS256", "other")),
     Header("Bearer", Claims("u1", "access", MaxTime + 1, "none", ""))}

TokenFields == {"access_token", "refresh_token"}

NextAuth ==
    \/ Tick
    \/ \E p \in Procs, u \in Users : LoginReq(p, u)
    \/ \E p \in Procs, f \in TokenFields :
          calls[p].pc = "session"
          /\ SyncEndpointReq(Header("Bearer", calls[p].tokens[f]))
    \/ \E h \in ForeignHeaders : SyncEndpointReq(h)
    \/ \E p \in Procs, f \in TokenFields :
          calls[p].pc = "session" /\ RefreshTokenReq(p, calls[p].tokens[f])

SpecAuth == Init /\ [][NextAuth]_vars

\* C39: the token kinds are not interchangeable: a token issued as a
\* refresh token is not accepted by the RequireAuth middleware as an access
\* token for the sync endpoints, and a token issued as an access token is
\* not accepted by RefreshToken to issue new tokens.
C39_TokenKindsNotInterchangeable ==
    /\ (resp.op = "RequireAuth" /\ resp.header.scheme = "Bearer"
        /\ resp.header.token.type = "refresh")
       => resp.status = "rejected"
    /\ (resp.op = "RefreshToken" /\ resp.header.token.type = "access")
       => resp.status = "rejected"
=============================================================================
